---------------------------- MODULE Spec2Model ----------------------------
(***************************************************************************)
(* A model of the ILRMA separators of ssspy (src/ssspy/bss/ilrma.py):      *)
(* construction, the call life cycle (_reset, the iteration loop,          *)
(* update_once and its steps, normalization, scale restoration) and the    *)
(* NMF parameters the steps maintain.                                      *)
(*                                                                         *)
(* Arrays are records [kind, shape, val]: shape is the numpy shape, val    *)
(* holds the entries at one representative frequency bin and frame as      *)
(* exact rationals <<numerator, denominator>>.  The quantities the updates *)
(* compute from the audio data (the multiplicative NMF factors, the        *)
(* per-source power psi, the filters the spatial update produces) are      *)
(* inputs of the steps, drawn from the small sets of an Inputs record.     *)
(***************************************************************************)
EXTENDS Integers, Sequences, FiniteSets, TLC

VARIABLES
    pc,            \* position of the program: see the actions
    cfg,           \* the constructor's arguments as stored on the object
    input,         \* self.input
    demix_filter,  \* self.demix_filter
    output,        \* self.output
    basis,         \* self.basis
    activation,    \* self.activation
    latent,        \* self.latent
    loss,          \* self.loss, the recorded loss sequence
    n_iter,        \* the n_iter argument of the running call
    iter,          \* iterations of the loop completed in the running call
    kwargs,        \* names of the keyword overrides of the running call
    rng,           \* number of arrays drawn from self.rng so far
    calls,         \* number of calls started on the object
    ret,           \* what the last call returned
    err,           \* the exception that ended construction or the call
    trace,         \* steps executed in the running call, in order
    caller_input,  \* the caller's array passed as input to the running call
    caller_kwargs, \* the caller's arrays passed as keywords to the running call
    cacgmm,        \* a CACGMM object: its attributes and the call running on it
    solver         \* a call of correlation_based_permutation_solver

vars == <<pc, cfg, input, demix_filter, output, basis, activation, latent,
          loss, n_iter, iter, kwargs, rng, calls, ret, err, trace,
          caller_input, caller_kwargs, cacgmm, solver>>

---------------------------------------------------------------------------
(* Bounds of the model.                                                    *)

\* largest n_iter a call is given
MaxIter == 2
\* calls made on one separator object
MaxCalls == 2

---------------------------------------------------------------------------
(* Exact rational arithmetic: <<n, d>> with d > 0, in lowest terms.        *)

RECURSIVE GCD(_, _)
GCD(a, b) == IF b = 0 THEN a ELSE GCD(b, a % b)

Abs(a) == IF a < 0 THEN 0 - a ELSE a

Rat(n, d) ==
    LET s == IF d < 0 THEN 0 - 1 ELSE 1
        g == GCD(Abs(n), Abs(d))
    IN  <<(s * n) \div g, (s * d) \div g>>

\* the operands are reduced before they are multiplied, to keep the
\* intermediate integers small
RAdd(a, b) ==
    LET g == GCD(a[2], b[2])
    IN  Rat(a[1] * (b[2] \div g) + b[1] * (a[2] \div g), (a[2] \div g) * b[2])
RMul(a, b) ==
    LET g == GCD(Abs(a[1]), b[2])
        h == GCD(Abs(b[1]), a[2])
    IN  Rat((a[1] \div g) * (b[1] \div h), (a[2] \div h) * (b[2] \div g))
RDiv(a, b) == RMul(a, Rat(b[2], b[1]))
RLt(a, b) ==
    LET g == GCD(a[2], b[2])
    IN  a[1] * (b[2] \div g) < b[1] * (a[2] \div g)
RLe(a, b) == a = b \/ RLt(a, b)
RAbs(a) == <<Abs(a[1]), a[2]>>
ROne == <<1, 1>>
RZero == <<0, 1>>

\* x ** p for the integer exponents the model uses
RECURSIVE RPow(_, _)
RPow(a, p) == IF p = 0 THEN ROne ELSE RMul(a, RPow(a, p - 1))

\* the sum of f[i] over the finite set S
RECURSIVE RSum(_, _)
RSum(f, S) ==
    IF S = {} THEN RZero
    ELSE LET i == CHOOSE j \in S : TRUE IN RAdd(f[i], RSum(f, S \ {i}))

---------------------------------------------------------------------------
(* numpy shapes: sequences of dimensions.  ShapeError is the value of a    *)
(* shape computation at which numpy raises.                                *)

ShapeError == <<0 - 1>>
IsShape(s) == s # ShapeError

Max(a, b) == IF a < b THEN b ELSE a

\* numpy broadcasting of two shapes, aligned at the last axis
Broadcast(s, t) ==
    IF ~IsShape(s) \/ ~IsShape(t) THEN ShapeError
    ELSE LET n == Max(Len(s), Len(t))
             ds(i) == IF i <= n - Len(s) THEN 1 ELSE s[i - (n - Len(s))]
             dt(i) == IF i <= n - Len(t) THEN 1 ELSE t[i - (n - Len(t))]
         IN  IF \A i \in 1..n : ds(i) = dt(i) \/ ds(i) = 1 \/ dt(i) = 1
             THEN [i \in 1..n |-> IF ds(i) = 1 THEN dt(i) ELSE ds(i)]
             ELSE ShapeError

\* the shape of s @ t for operands of at least two axes
MatMul(s, t) ==
    IF ~IsShape(s) \/ ~IsShape(t) \/ Len(s) < 2 \/ Len(t) < 2 THEN ShapeError
    ELSE IF s[Len(s)] # t[Len(t) - 1] THEN ShapeError
    ELSE LET b == Broadcast(SubSeq(s, 1, Len(s) - 2), SubSeq(t, 1, Len(t) - 2))
         IN  IF ~IsShape(b) THEN ShapeError
             ELSE b \o <<s[Len(s) - 1], t[Len(t)]>>

\* a.transpose(perm), perm given with axes counted from 1
Transpose(s, perm) ==
    IF ~IsShape(s) \/ Len(s) # Len(perm) THEN ShapeError
    ELSE [i \in 1..Len(perm) |-> s[perm[i]]]

\* a[ix] where ix is a sequence of ":" (a full slice) and "new"
\* (np.newaxis); axes of a that ix does not reach are kept
RECURSIVE IndexFrom(_, _, _)
IndexFrom(s, ix, k) ==
    IF ix = <<>> THEN SubSeq(s, k, Len(s))
    ELSE IF Head(ix) = "new" THEN <<1>> \o IndexFrom(s, Tail(ix), k)
    ELSE <<s[k]>> \o IndexFrom(s, Tail(ix), k + 1)

Index(s, ix) ==
    IF ~IsShape(s) THEN ShapeError
    ELSE IF Cardinality({i \in 1..Len(ix) : ix[i] = ":"}) > Len(s) THEN ShapeError
    ELSE IndexFrom(s, ix, 1)

\* np.sum(a, axis=axes), axes counted from 1
SumAxes(s, axes) ==
    IF ~IsShape(s) \/ \E a \in axes : a > Len(s) THEN ShapeError
    ELSE LET keep == {i \in 1..Len(s) : i \notin axes}
             RECURSIVE Pick(_)
             Pick(i) == IF i > Len(s) THEN <<>>
                        ELSE IF i \in keep THEN <<s[i]>> \o Pick(i + 1)
                        ELSE Pick(i + 1)
         IN  Pick(1)


---------------------------------------------------------------------------
(* Values of the object's attributes.                                      *)

\* the attribute does not exist (hasattr is False)
Unset == [kind |-> "unset"]
\* the attribute is None
NoneVal == [kind |-> "none"]
Array(shape, val) == [kind |-> "array", shape |-> shape, val |-> val]
IsArray(a) == a.kind = "array"

\* reference_id=None
NoRef == 0 - 1
\* the dof / beta field of a variant that takes no such parameter
NoParam == <<0, 0>>

NoError == [kind |-> "error", type |-> "none", in |-> "none"]
Error(type, where) == [kind |-> "error", type |-> type, in |-> where]

\* Python truthiness of a bool-or-str-or-None option
Truthy(x) == x \notin {"False", "None"}

\* ilrma.py line 16
spatial_algorithms == {"IP", "IP1", "IP2", "ISS", "ISS1", "ISS2"}
IPFamily == {"IP", "IP1", "IP2"}

\* the object keeps demix_filter and derives the output from it: ILRMAbase
\* itself (lines 116, 483-491) and the IP family of the variants
DerivesOutput(c) == c.variant = "Base" \/ c.spatial_algorithm \in IPFamily

\* ilrma.py line 17: EPS = 1e-15.  The model's floor keeps the role (the
\* threshold of max_flooring) at a magnitude TLC's integers can hold; the
\* values the steps draw lie on both sides of it.
EPS == <<1, 8>>

\* _flooring.max_flooring(x, eps): elementwise maximum with eps
max_flooring(x) == IF RLt(x, EPS) THEN EPS ELSE x

\* self.flooring_fn applied to one entry (ILRMAbase.__init__ lines 74-77:
\* flooring_fn=None selects the identity)
flooring_fn(c, x) == IF c.flooring_fn = "None" THEN x ELSE max_flooring(x)

---------------------------------------------------------------------------
(* Construction.                                                           *)

\* no CACGMM object constructed, no solver call made
CACGMM_start == [pc |-> "start"]
solver_start == [pc |-> "start"]

\* The caller's keyword arrays: `arrays` is what the caller's objects hold
\* now, `shared` the attributes of the separator still bound to the very
\* object the caller passed (an assignment of a new array unbinds it).
NoCallerArrays == [arrays |-> [name \in {} |-> Unset], shared |-> {}]

\* self.<name> = <a new array>, for each of the names
Rebind(names) == [caller_kwargs EXCEPT !.shared = @ \ names]

\* a routine writing value into the array self.<name> is bound to: the
\* caller's object changes when the attribute is still bound to it
WriteThrough(name, value) ==
    IF name \in caller_kwargs.shared
    THEN [caller_kwargs EXCEPT !.arrays[name] = value]
    ELSE caller_kwargs

\* the step ended by an exception assigns nothing
Rebound(names) == IF pc' = "raised" THEN caller_kwargs ELSE Rebind(names)

Init ==
    /\ pc = "start"
    /\ cfg = Unset
    /\ input = NoneVal
    /\ demix_filter = Unset
    /\ output = Unset
    /\ basis = Unset
    /\ activation = Unset
    /\ latent = Unset
    /\ loss = <<>>
    /\ n_iter = 0
    /\ iter = 0
    /\ kwargs = <<>>
    /\ rng = 0
    /\ calls = 0
    /\ ret = Unset
    /\ err = NoError
    /\ trace = <<>>
    /\ caller_input = NoneVal
    /\ caller_kwargs = NoCallerArrays
    /\ cacgmm = CACGMM_start
    /\ solver = solver_start

\* ILRMAbase.__init__ testing "scale_restoration is True" instead of its
\* truthiness
ILRMAbase_init_bool_only(a) ==
    IF a.reference_id = NoRef /\ a.scale_restoration = "True"
    THEN Error("ValueError", "__init__")
    ELSE NoError

\* ILRMAbase.__init__: the exception it raises for arguments a, or NoError
ILRMAbase_init(a) ==
    IF a.reference_id = NoRef /\ Truthy(a.scale_restoration)
    THEN Error("ValueError", "__init__")
    ELSE NoError

\* ILRMAbase constructed directly runs no further check.
\* The assertions of GaussILRMA.__init__ and TILRMA.__init__ (lines 672-673,
\* 1512-1513) and of GGDILRMA.__init__ (lines 2423-2425)
Subclass_init(a) ==
    IF a.variant = "Base" THEN NoError
    ELSE IF a.variant = "GGD" /\ ~(RLt(RZero, a.beta) /\ RLt(a.beta, <<2, 1>>))
    THEN Error("AssertionError", "__init__")
    ELSE IF a.spatial_algorithm \notin spatial_algorithms
    THEN Error("AssertionError", "__init__")
    ELSE IF ~(1 <= a.domain /\ a.domain <= 2)
    THEN Error("AssertionError", "__init__")
    ELSE NoError

\* <Variant>ILRMA.__init__(**a)
InitError(a) ==
    IF ILRMAbase_init(a) # NoError THEN ILRMAbase_init(a) ELSE Subclass_init(a)

\* the object a successful construction leaves
NewObject(a) == [kind |-> "object"] @@ a

Construct(In) ==
    /\ UNCHANGED <<caller_input, caller_kwargs, cacgmm, solver>>
    /\ pc = "start"
    /\ \E a \in In.args :
         IF InitError(a) # NoError
         THEN /\ pc' = "failed"
              /\ err' = InitError(a)
              /\ cfg' = [kind |-> "rejected"] @@ a
         ELSE /\ pc' = "idle"
              /\ err' = NoError
              /\ cfg' = NewObject(a)
    /\ loss' = <<>>
    /\ UNCHANGED <<input, demix_filter, output, basis, activation, latent,
                   n_iter, iter, kwargs, rng, calls, ret, trace>>

---------------------------------------------------------------------------
(* Arrays drawn by the generator and the entries the model keeps.          *)

\* rows x cols entries filled, in C order, from the stream pat
FillMatrix(pat, rows, cols) ==
    [n \in 1..rows |->
        [k \in 1..cols |-> pat[(((n - 1) * cols + (k - 1)) % Len(pat)) + 1]]]

FillVector(pat, cols) == [k \in 1..cols |-> pat[((k - 1) % Len(pat)) + 1]]

MapMatrix(Op(_), m) == [n \in 1..Len(m) |-> [k \in 1..Len(m[n]) |-> Op(m[n][k])]]
MapVector(Op(_), v) == [k \in 1..Len(v) |-> Op(v[k])]

\* the sum over axis 0 (the sources) of column k of the matrix m
ColumnSum(m, k) == RSum([n \in 1..Len(m) |-> m[n][k]], 1..Len(m))

\* m / m.sum(axis=0)
DivideByColumnSum(m) ==
    [n \in 1..Len(m) |-> [k \in 1..Len(m[n]) |-> RDiv(m[n][k], ColumnSum(m, k))]]

\* np.eye(n_sources, n_channels) tiled over the bins (lines 157-158)
Eye(n_sources, n_channels, n_bins) ==
    Array(<<n_bins, n_sources, n_channels>>,
          [n \in 1..n_sources |->
              [m \in 1..n_channels |-> IF n = m THEN ROne ELSE RZero]])

\* the entries of W @ x at the representative bin and frame
MatVec(W, x) ==
    [n \in 1..Len(W) |-> RSum([m \in 1..Len(x) |-> RMul(W[n][m], x[m])], 1..Len(x))]

---------------------------------------------------------------------------
(* ILRMAbase.separate and ILRMAbase.reconstruct_nmf.                       *)

\* separate without the final transpose: (n_bins, n_sources, n_frames)
separate_shape_untransposed(X, W) ==
    MatMul(W.shape, Transpose(X.shape, <<2, 1, 3>>))

\* the shape of separate(X, W): W @ X.transpose(1, 0, 2), transposed back
separate_shape(X, W) ==
    Transpose(MatMul(W.shape, Transpose(X.shape, <<2, 1, 3>>)), <<2, 1, 3>>)

\* ILRMAbase.separate(input, demix_filter): the array, or the exception
separate(X, W) ==
    IF ~IsArray(W) THEN Error("TypeError", "separate")
    ELSE IF ~IsShape(separate_shape(X, W)) THEN Error("ValueError", "separate")
    ELSE Array(separate_shape(X, W), MatVec(W.val, X.val))

\* the shape of reconstruct_nmf(basis, activation, latent)
reconstruct_nmf(T, V, Z) ==
    IF Z = NoneVal
    THEN MatMul(T.shape, V.shape)
    ELSE LET TV == Broadcast(Index(T.shape, <<":", ":", "new">>),
                             Index(V.shape, <<"new", ":", ":">>))
             ZTV == Broadcast(Index(Z.shape, <<":", "new", ":", "new">>),
                              Index(TV, <<"new", ":", ":", ":">>))
         IN  SumAxes(ZTV, {3})

---------------------------------------------------------------------------
(* ILRMAbase._reset, ILRMAbase._init_nmf and the subclasses' _reset.       *)

\* the shape each array has by the mixture's shape and n_basis
ExpectedShape(c, X, name) ==
    LET M == X.shape[1]
        I == X.shape[2]
        J == X.shape[3]
        K == c.n_basis
    IN  CASE name = "demix_filter" -> <<I, M, M>>
          [] name = "latent" -> <<M, K>>
          [] name = "basis" -> IF c.partitioning THEN <<I, K>> ELSE <<M, I, K>>
          [] name = "activation" -> IF c.partitioning THEN <<K, J>> ELSE <<M, K, J>>

\* the object's options after the loop of setattr (lines 145-146): a keyword
\* argument that names an option of the object replaces it
setattrs(c, kw) ==
    [a \in DOMAIN c |-> IF a \in DOMAIN kw THEN kw[a] ELSE c[a]]

\* the attribute after the loop of setattr (lines 145-146)
AfterSetattr(kw, name, current) == IF name \in DOMAIN kw THEN kw[name] ELSE current

\* _reset taking a demix_filter that is None as one that does not exist
reset_demix_filter_none_as_missing(X, W) ==
    IF W \in {Unset, NoneVal} THEN Eye(X.shape[1], X.shape[1], X.shape[2]) ELSE W

\* lines 156-166: the filter _reset stores
reset_demix_filter(X, W) ==
    IF W = Unset THEN Eye(X.shape[1], X.shape[1], X.shape[2]) ELSE W

\* lines 189-191: the latent drawn, normalized over the sources and floored
init_latent(c, X, pat) ==
    Array(<<X.shape[1], c.n_basis>>,
          MapMatrix(LAMBDA x : flooring_fn(c, x),
                    DivideByColumnSum(FillMatrix(pat, X.shape[1], c.n_basis))))

\* lines 197-198 and 214-215: the basis drawn and floored
init_basis(c, X, pat) ==
    IF c.partitioning
    THEN Array(<<X.shape[2], c.n_basis>>,
               MapVector(LAMBDA x : flooring_fn(c, x), FillVector(pat, c.n_basis)))
    ELSE Array(<<X.shape[1], X.shape[2], c.n_basis>>,
               MapMatrix(LAMBDA x : flooring_fn(c, x),
                         FillMatrix(pat, X.shape[1], c.n_basis)))

\* lines 204-205 and 221-222: the activation drawn and floored
init_activation(c, X, pat) ==
    IF c.partitioning
    THEN Array(<<c.n_basis, X.shape[3]>>,
               MapVector(LAMBDA x : flooring_fn(c, x), FillVector(pat, c.n_basis)))
    ELSE Array(<<X.shape[1], c.n_basis, X.shape[3]>>,
               MapMatrix(LAMBDA x : flooring_fn(c, x),
                         FillMatrix(pat, X.shape[1], c.n_basis)))

\* _init_nmf: an attribute that exists is copied, one that does not is drawn
init_nmf(c, X, Z, T, V, pZ, pT, pV) ==
    [latent |-> IF ~c.partitioning THEN Z
                ELSE IF Z = Unset THEN init_latent(c, X, pZ) ELSE Z,
     basis |-> IF T = Unset THEN init_basis(c, X, pT) ELSE T,
     activation |-> IF V = Unset THEN init_activation(c, X, pV) ELSE V,
     drawn |-> (IF c.partitioning /\ Z = Unset THEN 1 ELSE 0)
               + (IF T = Unset THEN 1 ELSE 0) + (IF V = Unset THEN 1 ELSE 0)]

\* _reset without the subclass's last two lines (745-746): the filter is kept
\* in the ISS family too
reset_keeps_filter(c, X, kw, pZ, pT, pV) ==
    LET W == reset_demix_filter(X, AfterSetattr(kw, "demix_filter", demix_filter))
        Z0 == AfterSetattr(kw, "latent", latent)
        T0 == AfterSetattr(kw, "basis", basis)
        V0 == AfterSetattr(kw, "activation", activation)
        Y == separate(X, W)
        nmf == init_nmf(c, X, Z0, T0, V0, pZ, pT, pV)
    IN  IF ~IsArray(Y)
        THEN [err |-> Error(Y.type, "_reset"), demix_filter |-> W, output |-> output,
              latent |-> Z0, basis |-> T0, activation |-> V0, drawn |-> 0]
        ELSE [err |-> NoError,
              demix_filter |-> W,
              output |-> Y,
              latent |-> nmf.latent, basis |-> nmf.basis,
              activation |-> nmf.activation, drawn |-> nmf.drawn]

\* <Variant>ILRMA._reset(**kw) on the object's current attributes: the
\* attributes it leaves and the exception it raises, if any
reset(c, X, kw, pZ, pT, pV) ==
    LET W == reset_demix_filter(X, AfterSetattr(kw, "demix_filter", demix_filter))
        Z0 == AfterSetattr(kw, "latent", latent)
        T0 == AfterSetattr(kw, "basis", basis)
        V0 == AfterSetattr(kw, "activation", activation)
        Y == separate(X, W)
        nmf == init_nmf(c, X, Z0, T0, V0, pZ, pT, pV)
    IN  IF ~IsArray(Y)
        THEN [err |-> Error(Y.type, "_reset"), demix_filter |-> W, output |-> output,
              latent |-> Z0, basis |-> T0, activation |-> V0, drawn |-> 0]
        ELSE [err |-> NoError,
              demix_filter |-> IF DerivesOutput(c) THEN W ELSE NoneVal,
              output |-> Y,
              latent |-> nmf.latent, basis |-> nmf.basis,
              activation |-> nmf.activation, drawn |-> nmf.drawn]

\* <Variant>ILRMA.__call__(input, n_iter, **kw) up to the end of _reset
\* (lines 704-706)
\* _reset binding every keyword to the caller's array and copying none
reset_shared_without_copy(c, kw, e) ==
    IF e = NoError /\ ~DerivesOutput(c) THEN DOMAIN kw \ {"demix_filter"}
    ELSE DOMAIN kw

\* The attributes still bound to the caller's arrays after _reset: setattr
\* binds each keyword (lines 145-146); the filter is copied (lines 160-166,
\* before separate can raise) and the ISS variants drop it (line 746);
\* _init_nmf copies basis, activation and, when partitioning, latent
\* (lines 187-227)
reset_shared(c, kw, e) ==
    IF e = NoError
    THEN DOMAIN kw \ ({"demix_filter", "basis", "activation"}
                      \cup (IF c.partitioning THEN {"latent"} ELSE {}))
    ELSE DOMAIN kw \ {"demix_filter"}

Call(In) ==
    /\ UNCHANGED <<cacgmm, solver>>
    /\ pc = "idle"
    /\ calls < In.calls
    /\ \E X \in In.mixtures, n \in In.n_iters,
          kw \in In.overrides[cfg.partitioning],
          pZ \in In.draws, pT \in In.draws, pV \in In.draws :
         LET r == reset(setattrs(cfg, kw), X, kw, pZ, pT, pV) IN
         /\ n <= MaxIter
         /\ cfg' = setattrs(cfg, kw)
         /\ caller_input' = X
         /\ caller_kwargs' = [arrays |-> kw,
                               shared |-> reset_shared(setattrs(cfg, kw), kw, r.err)]
         /\ input' = X
         /\ kwargs' = kw
         /\ n_iter' = n
         /\ demix_filter' = r.demix_filter
         /\ output' = r.output
         /\ latent' = r.latent
         /\ basis' = r.basis
         /\ activation' = r.activation
         /\ rng' = rng + r.drawn
         /\ err' = r.err
         /\ pc' = IF r.err = NoError THEN "initial" ELSE "raised"
    /\ iter' = 0
    /\ calls' = calls + 1
    /\ trace' = <<"_reset">>
    /\ UNCHANGED <<loss, ret>>

---------------------------------------------------------------------------
(* The order of the steps: IterativeMethodBase.__call__ (the loop) and     *)
(* <Variant>ILRMA.update_once / update_source_model.                       *)

\* update_source_model, lines 759-763: the first step of an update_once
FirstStep(c) ==
    IF c.variant = "Base" THEN "update_once"
    ELSE IF c.partitioning THEN "update_latent" ELSE "update_basis"

\* update_once returning after the spatial update whatever self.normalization
AfterSpatial_never_normalize(c) == "callback"

\* update_once, lines 750-754: what follows the spatial update
AfterSpatial(c) == IF Truthy(c.normalization) THEN "normalize" ELSE "callback"

\* the loop of IterativeMethodBase.__call__: after i iterations of n
LoopNext(c, i, n) == IF i < n THEN FirstStep(c) ELSE "restore_scale"

\* the separated spectrogram the source-model updates and the power
\* normalization read (lines 781-785): recomputed in the IP family
CurrentY(c) ==
    IF c.spatial_algorithm \in IPFamily THEN separate(input, demix_filter) ELSE output

\* a step that raised: the exception ends the call
Raise(e, where) ==
    /\ pc' = "raised"
    /\ err' = Error(e, where)
    /\ UNCHANGED <<cfg, input, demix_filter, output, basis, activation, latent,
                   loss, n_iter, iter, kwargs, rng, calls, ret>>

---------------------------------------------------------------------------
(* compute_loss (lines 1284-1315) and the loop's bookkeeping.              *)

\* np.linalg.slogdet / inv: the operand must be a stack of square matrices
SquareStack(s) == IsShape(s) /\ Len(s) >= 2 /\ s[Len(s)] = s[Len(s) - 1]

\* the shape of the loss before .item(), or ShapeError
compute_loss_shape(c) ==
    LET Y == CurrentY(c)
        R == reconstruct_nmf(basis, activation,
                             IF c.partitioning THEN latent ELSE NoneVal)
    IN  IF ~IsArray(Y) THEN ShapeError
        ELSE LET l == Broadcast(Y.shape, R)
                 Wshape == IF c.spatial_algorithm \in IPFamily
                           THEN demix_filter.shape
                           ELSE MatMul(Transpose(Y.shape, <<2, 1, 3>>),
                                       Transpose(input.shape, <<2, 3, 1>>))
             IN  IF ~IsShape(l) \/ Len(l) < 2 \/ ~SquareStack(Wshape) THEN ShapeError
                 ELSE Broadcast(SumAxes(SumAxes(l, {Len(l)}), {1}),
                                SubSeq(Wshape, 1, Len(Wshape) - 2))

\* compute_loss raises unless every shape agrees and one number is left
compute_loss_ok(c) ==
    /\ IsShape(compute_loss_shape(c))
    /\ Len(compute_loss_shape(c)) = 1

\* ILRMAbase.update_once returning without raising
ILRMAbase_update_once_noop == NoError

\* ILRMAbase.update_once, lines 286-288
ILRMAbase_update_once == Error("NotImplementedError", "update_once")

\* ILRMAbase.compute_loss, lines 444-450
ILRMAbase_compute_loss == Error("NotImplementedError", "compute_loss")

\* self.compute_loss() as the loop calls it: the exception, or NoError
compute_loss(c) ==
    IF c.variant = "Base" THEN ILRMAbase_compute_loss
    ELSE IF compute_loss_ok(c) THEN NoError
    ELSE Error("ValueError", "compute_loss")

\* IterativeMethodBase.__call__ with initial_call: the loss is recorded and
\* the callbacks run on the state _reset left
InitialCall ==
    /\ UNCHANGED <<caller_input, caller_kwargs, cacgmm, solver>>
    /\ pc = "initial"
    /\ trace' = Append(trace, "initial_call")
    /\ IF cfg.record_loss /\ compute_loss(cfg) # NoError
       THEN Raise(compute_loss(cfg).type, "compute_loss")
       ELSE /\ loss' = IF cfg.record_loss THEN Append(loss, iter) ELSE loss
            /\ pc' = LoopNext(cfg, iter, n_iter)
            /\ UNCHANGED <<cfg, input, demix_filter, output, basis, activation,
                           latent, n_iter, iter, kwargs, rng, calls, ret, err>>

\* the loop body after update_once with the callbacks run and no loss
\* recorded
AfterIteration_without_loss ==
    /\ UNCHANGED <<caller_input, caller_kwargs, cacgmm, solver>>
    /\ pc = "callback"
    /\ trace' = Append(trace, "callback")
    /\ iter' = iter + 1
    /\ pc' = LoopNext(cfg, iter + 1, n_iter)
    /\ UNCHANGED <<cfg, input, demix_filter, output, basis, activation,
                   latent, loss, n_iter, kwargs, rng, calls, ret, err>>

\* the loop body after update_once: the loss is recorded, the callbacks run
AfterIteration ==
    /\ UNCHANGED <<caller_input, caller_kwargs, cacgmm, solver>>
    /\ pc = "callback"
    /\ trace' = Append(trace, "callback")
    /\ IF cfg.record_loss /\ compute_loss(cfg) # NoError
       THEN Raise(compute_loss(cfg).type, "compute_loss")
       ELSE /\ loss' = IF cfg.record_loss THEN Append(loss, iter + 1) ELSE loss
            /\ iter' = iter + 1
            /\ pc' = LoopNext(cfg, iter + 1, n_iter)
            /\ UNCHANGED <<cfg, input, demix_filter, output, basis, activation,
                           latent, n_iter, kwargs, rng, calls, ret, err>>

\* the loop calling update_once on an object of the base class
UpdateOnce ==
    /\ UNCHANGED <<caller_input, caller_kwargs, cacgmm, solver>>
    /\ pc = "update_once"
    /\ trace' = Append(trace, "update_once")
    /\ IF ILRMAbase_update_once # NoError
       THEN Raise(ILRMAbase_update_once.type, "update_once")
       ELSE /\ pc' = "callback"
            /\ UNCHANGED <<cfg, input, demix_filter, output, basis, activation,
                           latent, loss, n_iter, iter, kwargs, rng, calls, ret, err>>

\* separate, update_once or compute_loss invoked directly on an object of
\* the base class, outside a call
Invoke ==
    /\ UNCHANGED <<caller_input, caller_kwargs, cacgmm, solver>>
    /\ pc = "idle"
    /\ cfg.variant = "Base"
    /\ \E m \in {"separate", "update_once", "compute_loss"} :
         /\ m = "separate" => (input # NoneVal /\ demix_filter # Unset)
         /\ trace' = <<m>>
         /\ LET r == CASE m = "separate" -> separate(input, demix_filter)
                        [] m = "update_once" -> ILRMAbase_update_once
                        [] m = "compute_loss" -> ILRMAbase_compute_loss
            IN  /\ err' = IF IsArray(r) THEN NoError ELSE r
                /\ ret' = IF IsArray(r) THEN r ELSE ret
    /\ UNCHANGED <<pc, cfg, input, demix_filter, output, basis, activation,
                   latent, loss, n_iter, iter, kwargs, rng, calls>>

---------------------------------------------------------------------------
(* The source-model updates.  The shapes follow the tensor contractions of *)
(* GaussILRMA.update_latent / update_basis / update_activation; TILRMA and *)
(* GGDILRMA contract the same axes (TILRMA also adds |y|^2 to the          *)
(* reconstruction).  The multiplicative factor (num / denom) ** p_p2 is an *)
(* input of the step, one entry per entry of the parameter.                *)

\* the reconstruction as the variant uses it in a denominator
Denominator(c, R, Y) == IF c.variant = "T" THEN Broadcast(R, Y.shape) ELSE R

\* the shape of num (and of denom) in update_latent: lines 794-802
latent_factor_shape(c, Y) ==
    LET TV == Broadcast(Index(basis.shape, <<":", ":", "new">>),
                        Index(activation.shape, <<"new", ":", ":">>))
        ZTV == Denominator(c, reconstruct_nmf(basis, activation, latent), Y)
        q == Broadcast(Index(TV, <<"new", ":", ":", ":">>),
                       Index(ZTV, <<":", ":", "new", ":">>))
    IN  SumAxes(Broadcast(q, Index(Y.shape, <<":", ":", "new", ":">>)), {2, 4})

\* the shape of num (and of denom) in update_basis: lines 844-867
basis_factor_shape(c, Y) ==
    IF c.partitioning
    THEN LET ZV == Broadcast(Index(latent.shape, <<":", ":", "new">>),
                             Index(activation.shape, <<"new", ":", ":">>))
             ZTV == Denominator(c, reconstruct_nmf(basis, activation, latent), Y)
             q == Broadcast(Index(ZV, <<":", "new", ":", ":">>),
                            Index(ZTV, <<":", ":", "new", ":">>))
         IN  SumAxes(Broadcast(q, Index(Y.shape, <<":", ":", "new", ":">>)), {1, 4})
    ELSE LET TV == Denominator(c, reconstruct_nmf(basis, activation, NoneVal), Y)
             q == Broadcast(Index(activation.shape, <<":", "new", ":", ":">>),
                            Index(TV, <<":", ":", "new", ":">>))
         IN  SumAxes(Broadcast(q, Index(Y.shape, <<":", ":", "new", ":">>)), {4})

\* the shape of num (and of denom) in update_activation: lines 907-930
activation_factor_shape(c, Y) ==
    IF c.partitioning
    THEN LET ZT == Broadcast(Index(latent.shape, <<":", "new", ":">>),
                             Index(basis.shape, <<"new", ":", ":">>))
             ZTV == Denominator(c, reconstruct_nmf(basis, activation, latent), Y)
             q == Broadcast(Index(ZT, <<":", ":", ":", "new">>),
                            Index(ZTV, <<":", ":", "new", ":">>))
         IN  SumAxes(Broadcast(q, Index(Y.shape, <<":", ":", "new", ":">>)), {1, 2})
    ELSE LET TV == Denominator(c, reconstruct_nmf(basis, activation, NoneVal), Y)
             q == Broadcast(Index(basis.shape, <<":", ":", ":", "new">>),
                            Index(TV, <<":", ":", "new", ":">>))
         IN  SumAxes(Broadcast(q, Index(Y.shape, <<":", ":", "new", ":">>)), {2})

\* entries of a parameter times the entries of the factor stream f
ScaleMatrix(m, f) ==
    [n \in 1..Len(m) |->
        [k \in 1..Len(m[n]) |->
            RMul(m[n][k], f[(((n - 1) * Len(m[n]) + (k - 1)) % Len(f)) + 1])]]

ScaleVector(v, f) == [k \in 1..Len(v) |-> RMul(v[k], f[((k - 1) % Len(f)) + 1])]

\* update_latent without the division by Z.sum(axis=0)
update_latent_unnormalized(c, Z, f) == ScaleMatrix(Z, f)

\* lines 804-805: Z = factor * Z, then Z = Z / Z.sum(axis=0); no flooring
update_latent(c, Z, f) == DivideByColumnSum(ScaleMatrix(Z, f))

\* lines 869-870: T = factor * T, then T = flooring_fn(T)
update_basis(c, T, f) ==
    IF c.partitioning
    THEN MapVector(LAMBDA x : flooring_fn(c, x), ScaleVector(T, f))
    ELSE MapMatrix(LAMBDA x : flooring_fn(c, x), ScaleMatrix(T, f))

\* lines 932-933: V = factor * V, then V = flooring_fn(V)
update_activation(c, V, f) ==
    IF c.partitioning
    THEN MapVector(LAMBDA x : flooring_fn(c, x), ScaleVector(V, f))
    ELSE MapMatrix(LAMBDA x : flooring_fn(c, x), ScaleMatrix(V, f))

UpdateLatent(In) ==
    /\ UNCHANGED <<caller_input, cacgmm, solver>>
    /\ pc = "update_latent"
    /\ trace' = Append(trace, "update_latent")
    /\ LET Y == CurrentY(cfg) IN
       IF ~IsArray(Y) THEN Raise(Y.type, "update_latent")
       ELSE LET sh == Broadcast(latent_factor_shape(cfg, Y), latent.shape) IN
            IF ~IsShape(sh) THEN Raise("ValueError", "update_latent")
            ELSE /\ \E f \in In.factors :
                      latent' = Array(sh, update_latent(cfg, latent.val, f))
                 /\ pc' = "update_basis"
                 /\ UNCHANGED <<cfg, input, demix_filter, output, basis, activation,
                                loss, n_iter, iter, kwargs, rng, calls, ret, err>>
    /\ caller_kwargs' = Rebound({"latent"})

UpdateBasis(In) ==
    /\ UNCHANGED <<caller_input, cacgmm, solver>>
    /\ pc = "update_basis"
    /\ trace' = Append(trace, "update_basis")
    /\ LET Y == CurrentY(cfg) IN
       IF ~IsArray(Y) THEN Raise(Y.type, "update_basis")
       ELSE LET sh == Broadcast(basis_factor_shape(cfg, Y), basis.shape) IN
            IF ~IsShape(sh) THEN Raise("ValueError", "update_basis")
            ELSE /\ \E f \in In.factors :
                      basis' = Array(sh, update_basis(cfg, basis.val, f))
                 /\ pc' = "update_activation"
                 /\ UNCHANGED <<cfg, input, demix_filter, output, latent, activation,
                                loss, n_iter, iter, kwargs, rng, calls, ret, err>>
    /\ caller_kwargs' = Rebound({"basis"})

UpdateActivation(In) ==
    /\ UNCHANGED <<caller_input, cacgmm, solver>>
    /\ pc = "update_activation"
    /\ trace' = Append(trace, "update_activation")
    /\ LET Y == CurrentY(cfg) IN
       IF ~IsArray(Y) THEN Raise(Y.type, "update_activation")
       ELSE LET sh == Broadcast(activation_factor_shape(cfg, Y), activation.shape) IN
            IF ~IsShape(sh) THEN Raise("ValueError", "update_activation")
            ELSE /\ \E f \in In.factors :
                      activation' = Array(sh, update_activation(cfg, activation.val, f))
                 /\ pc' = "update_spatial_model"
                 /\ UNCHANGED <<cfg, input, demix_filter, output, latent, basis,
                                loss, n_iter, iter, kwargs, rng, calls, ret, err>>
    /\ caller_kwargs' = Rebound({"activation"})

---------------------------------------------------------------------------
(* The spatial-model update: update_spatial_model and the four rules.      *)

\* the rule update_spatial_model dispatches to (lines 945-954)
SpatialRule(c) ==
    CASE c.spatial_algorithm \in {"IP", "IP1"} -> "ip1"
      [] c.spatial_algorithm \in {"IP2"} -> "ip2"
      [] c.spatial_algorithm \in {"ISS", "ISS1"} -> "iss1"
      [] c.spatial_algorithm \in {"ISS2"} -> "iss2"
      [] OTHER -> "NotImplementedError"

\* the shape of varphi = 1 / R (Gauss) or 1 / R_tilde (t, GGD: R and |y|^2)
varphi_shape(c, Y) ==
    LET R == reconstruct_nmf(basis, activation,
                             IF c.partitioning THEN latent ELSE NoneVal)
    IN  IF c.variant = "Gauss" THEN R ELSE Broadcast(R, Y.shape)

\* the shape of the weighted covariance U of the IP rules: lines 1002-1007
covariance_shape(c, X, Y) ==
    LET XX == Transpose(Broadcast(Index(X.shape, <<":", "new", ":", ":">>),
                                  Index(X.shape, <<"new", ":", ":", ":">>)),
                        <<3, 1, 2, 4>>)
        varphi == Transpose(varphi_shape(c, Y), <<2, 1, 3>>)
        vXX == Broadcast(Index(varphi, <<":", ":", "new", "new", ":">>),
                         Index(XX, <<":", "new", ":", ":", ":">>))
    IN  IF IsShape(vXX) THEN SubSeq(vXX, 1, Len(vXX) - 1) ELSE ShapeError

\* _update_spatial_model.update_by_ip1 / update_by_ip2: new filters of the
\* shape of W from W (n_bins, n_sources, n_channels) and
\* U (n_bins, n_sources, n_channels, n_channels)
update_by_ip(W, U, F) ==
    IF IsShape(U) /\ Len(W.shape) = 3 /\ U = W.shape \o <<W.shape[3]>>
    THEN Array(W.shape, F)
    ELSE Error("ValueError", "update_spatial_model")

\* _update_spatial_model.update_by_iss1 / update_by_iss2: a new separated
\* spectrogram of the shape of Y from Y and varphi, both
\* (n_sources, n_bins, n_frames)
update_by_iss(Y, varphi, y) ==
    IF IsShape(varphi) /\ varphi = Y.shape
    THEN Array(Y.shape, y)
    ELSE Error("ValueError", "update_spatial_model")

\* update_by_ip1 / update_by_ip2 (lines 1009, 1124): the routine returns the
\* updated filter, in a new array or in the array it was given, and the
\* result is assigned to self.demix_filter; the ISS rules leave the filter
update_by_ip_binding(c, W) ==
    IF pc' = "raised" \/ SpatialRule(c) \notin {"ip1", "ip2"}
    THEN {caller_kwargs}
    ELSE {Rebind({"demix_filter"}), WriteThrough("demix_filter", W)}

UpdateSpatialModel(In) ==
    /\ UNCHANGED <<caller_input, cacgmm, solver>>
    /\ pc = "update_spatial_model"
    /\ trace' = Append(trace, SpatialRule(cfg))
    /\ IF SpatialRule(cfg) \in {"ip1", "ip2"}
       THEN LET Y == separate(input, demix_filter) IN
            IF ~IsArray(Y) THEN Raise(Y.type, "update_spatial_model")
            ELSE \E F \in In.filters :
                   LET W == update_by_ip(demix_filter,
                                         covariance_shape(cfg, input, Y), F) IN
                   IF ~IsArray(W) THEN Raise(W.type, "update_spatial_model")
                   ELSE /\ demix_filter' = W
                        /\ pc' = AfterSpatial(cfg)
                        /\ UNCHANGED <<cfg, input, output, basis, activation,
                                       latent, loss, n_iter, iter, kwargs, rng,
                                       calls, ret, err>>
       ELSE \E y \in In.separated :
              LET Y == update_by_iss(output, varphi_shape(cfg, output), y) IN
              IF ~IsArray(Y) THEN Raise(Y.type, "update_spatial_model")
              ELSE /\ output' = Y
                   /\ pc' = AfterSpatial(cfg)
                   /\ UNCHANGED <<cfg, input, demix_filter, basis, activation,
                                  latent, loss, n_iter, iter, kwargs, rng,
                                  calls, ret, err>>
    /\ caller_kwargs' \in update_by_ip_binding(cfg, demix_filter')

---------------------------------------------------------------------------
(* Normalization: normalize, normalize_by_power and                        *)
(* normalize_by_projection_back.                                           *)

\* normalize taking the power normalization whenever the object partitions
NormalizeRule_partitioning_as_power(c) ==
    LET name == IF c.normalization = "True" \/ c.partitioning THEN "power"
                ELSE c.normalization
    IN  IF name \in {"power", "projection_back"} THEN name ELSE "NotImplementedError"

\* normalize, lines 292-305: the routine the option selects
NormalizeRule(c) ==
    LET name == IF c.normalization = "True" THEN "power" ELSE c.normalization
    IN  IF name \in {"power", "projection_back"} THEN name ELSE "NotImplementedError"

\* psi ** p and |scale| ** p for the domain parameter p
DomainPower(c, x) == RPow(RAbs(x), c.domain)

\* lines 346-348: psi, one entry per source, floored
power_psi(c, q) == MapVector(LAMBDA x : flooring_fn(c, x), q)

\* normalize_by_power dividing the NMF parameters by psi, not by psi ** p
power_nmf_by_psi(c, psi) ==
    IF c.partitioning
    THEN LET Z == latent.val
             Z_psi == [n \in 1..Len(Z) |->
                         [k \in 1..Len(Z[n]) |->
                             RDiv(Z[n][k], psi[n])]]
             scale == [k \in 1..Len(Z[1]) |-> ColumnSum(Z_psi, k)]
         IN  [latent |-> Array(Broadcast(Broadcast(latent.shape,
                                                   <<Len(psi), 1>>),
                                         <<Len(scale)>>),
                               [n \in 1..Len(Z) |->
                                   [k \in 1..Len(Z[n]) |->
                                       RDiv(Z_psi[n][k], scale[k])]]),
              basis |-> Array(Broadcast(basis.shape, <<1, Len(scale)>>),
                              [k \in 1..Len(basis.val) |->
                                  RMul(basis.val[k], scale[k])])]
    ELSE [latent |-> latent,
          basis |-> Array(Broadcast(basis.shape, <<Len(psi), 1, 1>>),
                          [n \in 1..Len(basis.val) |->
                              [k \in 1..Len(basis.val[n]) |->
                                  RDiv(basis.val[n][k], psi[n])]])]

\* lines 350-364: the NMF parameters normalize_by_power leaves
power_nmf(c, psi) ==
    IF c.partitioning
    THEN LET Z == latent.val
             Z_psi == [n \in 1..Len(Z) |->
                         [k \in 1..Len(Z[n]) |->
                             RDiv(Z[n][k], DomainPower(c, psi[n]))]]
             scale == [k \in 1..Len(Z[1]) |-> ColumnSum(Z_psi, k)]
         IN  [latent |-> Array(Broadcast(Broadcast(latent.shape,
                                                   <<Len(psi), 1>>),
                                         <<Len(scale)>>),
                               [n \in 1..Len(Z) |->
                                   [k \in 1..Len(Z[n]) |->
                                       RDiv(Z_psi[n][k], scale[k])]]),
              basis |-> Array(Broadcast(basis.shape, <<1, Len(scale)>>),
                              [k \in 1..Len(basis.val) |->
                                  RMul(basis.val[k], scale[k])])]
    ELSE [latent |-> latent,
          basis |-> Array(Broadcast(basis.shape, <<Len(psi), 1, 1>>),
                          [n \in 1..Len(basis.val) |->
                              [k \in 1..Len(basis.val[n]) |->
                                  RDiv(basis.val[n][k], DomainPower(c, psi[n]))]])]

\* lines 366-372: rows of W, or the sources of Y, divided by psi
DivideRows(m, psi) ==
    [n \in 1..Len(m) |-> [k \in 1..Len(m[n]) |-> RDiv(m[n][k], psi[n])]]

DivideEntries(v, psi) == [n \in 1..Len(v) |-> RDiv(v[n], psi[n])]

\* the inverse of a 2 x 2 matrix
Det2(W) == RAdd(RMul(W[1][1], W[2][2]),
                RMul(<<0 - 1, 1>>, RMul(W[1][2], W[2][1])))

Inverse2(W) ==
    <<<<RDiv(W[2][2], Det2(W)), RDiv(RMul(<<0 - 1, 1>>, W[1][2]), Det2(W))>>,
      <<RDiv(RMul(<<0 - 1, 1>>, W[2][1]), Det2(W)), RDiv(W[1][1], Det2(W))>>>>

\* scale = inv(W)[:, :, reference_id]: the column of the inverse instead of
\* its row
projection_back_scale_by_column(W, reference_id) ==
    LET r == IF reference_id = NoRef THEN 0 ELSE reference_id
    IN  [n \in 1..Len(W) |-> Inverse2(W)[n][r + 1]]

\* lines 418-420: scale = inv(W)[:, reference_id, :], one entry per source
projection_back_scale(W, reference_id) ==
    LET r == IF reference_id = NoRef THEN 0 ELSE reference_id
    IN  Inverse2(W)[r + 1]

\* W * scale[:, :, np.newaxis]
ScaleRows(m, scale) ==
    [n \in 1..Len(m) |-> [k \in 1..Len(m[n]) |-> RMul(m[n][k], scale[n])]]

ScaleEntries(v, scale) == [n \in 1..Len(v) |-> RMul(v[n], scale[n])]

\* lines 438-442: T * |scale| ** p
projection_back_basis(c, scale) ==
    Array(Broadcast(basis.shape, <<Len(scale), input.shape[2], 1>>),
          [n \in 1..Len(basis.val) |->
              [k \in 1..Len(basis.val[n]) |->
                  RMul(basis.val[n][k], DomainPower(c, scale[n]))]])

\* a filter numpy can invert: a stack of square, regular matrices
Invertible(W) ==
    /\ IsArray(W)
    /\ SquareStack(W.shape)
    /\ Len(W.val) = 2
    /\ Det2(W.val) # RZero

\* normalize_by_power dividing the input by psi in place as well
NormalizeByPower_scaling_input(In) ==
    LET Y == CurrentY(cfg) IN
    IF ~IsArray(Y) THEN Raise(Y.type, "normalize")
    ELSE \E q \in In.psis :
           LET psi == power_psi(cfg, q)
               nmf == power_nmf(cfg, psi)
               W == IF cfg.spatial_algorithm \in IPFamily
                    THEN Array(Broadcast(demix_filter.shape, <<1, Len(psi), 1>>),
                               DivideRows(demix_filter.val, psi))
                    ELSE demix_filter
               Yn == IF cfg.spatial_algorithm \in IPFamily THEN output
                     ELSE Array(Broadcast(Y.shape, <<Len(psi), 1, 1>>),
                                DivideEntries(Y.val, psi))
           IN  IF Len(Y.shape) < 3 \/ Len(psi) # Y.shape[1]
                  \/ ~IsShape(nmf.basis.shape)
                  \/ (cfg.partitioning /\ ~IsShape(nmf.latent.shape))
                  \/ (IsArray(W) /\ ~IsShape(W.shape))
               THEN Raise("ValueError", "normalize")
               ELSE /\ input' = Array(input.shape, DivideEntries(input.val, psi))
                    /\ latent' = nmf.latent
                    /\ basis' = nmf.basis
                    /\ demix_filter' = W
                    /\ output' = Yn
                    /\ pc' = "callback"
                    /\ UNCHANGED <<cfg, activation, loss, n_iter, iter,
                                   kwargs, rng, calls, ret, err>>

\* normalize_by_power, lines 338-372
NormalizeByPower(In) ==
    LET Y == CurrentY(cfg) IN
    IF ~IsArray(Y) THEN Raise(Y.type, "normalize")
    ELSE \E q \in In.psis :
           LET psi == power_psi(cfg, q)
               nmf == power_nmf(cfg, psi)
               W == IF cfg.spatial_algorithm \in IPFamily
                    THEN Array(Broadcast(demix_filter.shape, <<1, Len(psi), 1>>),
                               DivideRows(demix_filter.val, psi))
                    ELSE demix_filter
               Yn == IF cfg.spatial_algorithm \in IPFamily THEN output
                     ELSE Array(Broadcast(Y.shape, <<Len(psi), 1, 1>>),
                                DivideEntries(Y.val, psi))
           IN  IF Len(Y.shape) < 3 \/ Len(psi) # Y.shape[1]
                  \/ ~IsShape(nmf.basis.shape)
                  \/ (cfg.partitioning /\ ~IsShape(nmf.latent.shape))
                  \/ (IsArray(W) /\ ~IsShape(W.shape))
               THEN Raise("ValueError", "normalize")
               ELSE /\ latent' = nmf.latent
                    /\ basis' = nmf.basis
                    /\ demix_filter' = W
                    /\ output' = Yn
                    /\ pc' = "callback"
                    /\ UNCHANGED <<cfg, input, activation, loss, n_iter, iter,
                                   kwargs, rng, calls, ret, err>>

NormalizeByProjectionBack(In) ==
    IF cfg.partitioning THEN Raise("NotImplementedError", "normalize")
    ELSE IF cfg.spatial_algorithm \in IPFamily
    THEN IF ~Invertible(demix_filter) THEN Raise("LinAlgError", "normalize")
         ELSE LET scale == projection_back_scale(demix_filter.val,
                                                 cfg.reference_id)
                  T == projection_back_basis(cfg, scale)
              IN  IF ~IsShape(T.shape) THEN Raise("ValueError", "normalize")
                  ELSE /\ demix_filter' = Array(demix_filter.shape,
                                                ScaleRows(demix_filter.val, scale))
                       /\ basis' = T
                       /\ pc' = "callback"
                       /\ UNCHANGED <<cfg, input, output, activation, latent, loss,
                                      n_iter, iter, kwargs, rng, calls, ret, err>>
    ELSE \E scale \in In.psis :
           LET T == projection_back_basis(cfg, scale) IN
           IF ~IsShape(T.shape) \/ Len(scale) # Len(output.val)
           THEN Raise("ValueError", "normalize")
           ELSE /\ output' = Array(output.shape, ScaleEntries(output.val, scale))
                /\ basis' = T
                /\ pc' = "callback"
                /\ UNCHANGED <<cfg, input, demix_filter, activation, latent, loss,
                               n_iter, iter, kwargs, rng, calls, ret, err>>

\* the attributes normalize assigns new arrays to: lines 350-369 (power) and
\* lines 413-442 (projection back)
normalize_rebinds(c) ==
    {"basis"}
    \cup (IF c.partitioning /\ NormalizeRule(c) = "power" THEN {"latent"} ELSE {})
    \cup (IF c.spatial_algorithm \in IPFamily THEN {"demix_filter"} ELSE {})

\* <Variant>ILRMA.update_once, lines 753-754: self.normalize()
Normalize(In) ==
    /\ UNCHANGED <<caller_input, cacgmm, solver>>
    /\ pc = "normalize"
    /\ trace' = Append(trace, "normalize")
    /\ CASE NormalizeRule(cfg) = "power" -> NormalizeByPower(In)
         [] NormalizeRule(cfg) = "projection_back" -> NormalizeByProjectionBack(In)
         [] OTHER -> Raise("NotImplementedError", "normalize")
    /\ caller_kwargs' = Rebound(normalize_rebinds(cfg))

---------------------------------------------------------------------------
(* Scale restoration and the end of the call.                              *)

\* restore_scale, lines 471-481: the routine the option selects
RestoreRule(c) ==
    LET name == IF c.scale_restoration = "True" THEN "projection_back"
                ELSE c.scale_restoration
    IN  IF name = "projection_back" THEN name ELSE "ValueError"

\* algorithm.projection_back(demix_filter, reference_id): each row of W
\* scaled by the reference channel's entry of the inverse
projection_back(W, reference_id) ==
    Array(W.shape, ScaleRows(W.val, projection_back_scale(W.val, reference_id)))

\* <Variant>ILRMA.apply_projection_back (lines 1317-1327) and
\* ILRMAbase.apply_projection_back (lines 487-491): the filter and output
\* left, or the exception
apply_projection_back(c, scale) ==
    IF DerivesOutput(c)
    THEN IF ~Invertible(demix_filter)
         THEN [err |-> Error("LinAlgError", "restore_scale")]
         ELSE LET W == projection_back(demix_filter, c.reference_id)
                  Y == separate(input, W)
              IN  IF ~IsArray(Y) THEN [err |-> Error(Y.type, "restore_scale")]
                  ELSE [err |-> NoError, demix_filter |-> W, output |-> Y]
    ELSE IF Len(scale) # Len(output.val) \/ output.shape # input.shape
         THEN [err |-> Error("ValueError", "restore_scale")]
         ELSE [err |-> NoError, demix_filter |-> demix_filter,
               output |-> Array(output.shape, ScaleEntries(output.val, scale))]

\* __call__ restoring the scale whatever self.scale_restoration
\* the attributes restore_scale assigns new arrays to: line 491
restore_scale_rebinds(c) ==
    IF Truthy(c.scale_restoration) /\ DerivesOutput(c) THEN {"demix_filter"} ELSE {}

Finish_restoring_always(In) ==
    /\ UNCHANGED <<caller_input, cacgmm, solver>>
    /\ pc = "restore_scale"
    /\ \E scale \in In.psis :
         LET r == IF ~Truthy(cfg.scale_restoration)
                  THEN apply_projection_back(cfg, scale)
                  ELSE IF RestoreRule(cfg) = "ValueError"
                  THEN [err |-> Error("ValueError", "restore_scale")]
                  ELSE apply_projection_back(cfg, scale)
             Y == IF DerivesOutput(cfg)
                  THEN separate(input, r.demix_filter) ELSE r.output
         IN  IF r.err # NoError
             THEN /\ trace' = Append(trace, "restore_scale")
                  /\ Raise(r.err.type, r.err.in)
             ELSE IF ~IsArray(Y)
             THEN /\ trace' = Append(trace, "separate")
                  /\ Raise(Y.type, "__call__")
             ELSE /\ trace' = Append(trace, "restore_scale")
                  /\ demix_filter' = r.demix_filter
                  /\ output' = Y
                  /\ ret' = Y
                  /\ pc' = "idle"
                  /\ UNCHANGED <<cfg, input, basis, activation, latent, loss,
                                 n_iter, iter, kwargs, rng, calls, err>>
    /\ caller_kwargs' = Rebound(restore_scale_rebinds(cfg))

\* the end of <Variant>ILRMA.__call__, lines 711-717: scale restoration,
\* the output recomputed in the IP family, and the return
Finish(In) ==
    /\ UNCHANGED <<caller_input, cacgmm, solver>>
    /\ pc = "restore_scale"
    /\ \E scale \in In.psis :
         LET r == IF ~Truthy(cfg.scale_restoration)
                  THEN [err |-> NoError, demix_filter |-> demix_filter,
                        output |-> output]
                  ELSE IF RestoreRule(cfg) = "ValueError"
                  THEN [err |-> Error("ValueError", "restore_scale")]
                  ELSE apply_projection_back(cfg, scale)
             Y == IF DerivesOutput(cfg)
                  THEN separate(input, r.demix_filter) ELSE r.output
         IN  IF r.err # NoError
             THEN /\ trace' = Append(trace, "restore_scale")
                  /\ Raise(r.err.type, r.err.in)
             ELSE IF ~IsArray(Y)
             THEN /\ trace' = Append(trace, "separate")
                  /\ Raise(Y.type, "__call__")
             ELSE /\ trace' = IF Truthy(cfg.scale_restoration)
                              THEN Append(trace, "restore_scale") ELSE trace
                  /\ demix_filter' = r.demix_filter
                  /\ output' = Y
                  /\ ret' = Y
                  /\ pc' = "idle"
                  /\ UNCHANGED <<cfg, input, basis, activation, latent, loss,
                                 n_iter, iter, kwargs, rng, calls, err>>
    /\ caller_kwargs' = Rebound(restore_scale_rebinds(cfg))

---------------------------------------------------------------------------
(* The cACGMM separator (cacgmm.py). An array keeps its entries at one     *)
(* representative bin: input and unit_input [channel][frame], mixing       *)
(* [source], covariance [source][channel][channel], posterior and output   *)
(* [source][frame]. The mixtures have two channels.                        *)

\* the ILRMA object's variables, which no step of a CACGMM object touches
ILRMA_vars == <<pc, cfg, input, demix_filter, output, basis, activation,
                latent, loss, n_iter, iter, kwargs, rng, calls, ret, err,
                trace, caller_input, caller_kwargs>>

\* n_sources=None: the number of channels is used (lines 116-120)
NoSources == 0

\* whether self.flooring_fn can be called: CACGMM.__init__ stores the
\* argument as given (line 271), None included
Callable(f) == f # "None"

\* CACGMMbase.__init__ (lines 51-58) and CACGMM.__init__ (lines 270-274)
CACGMM_init(a) ==
    [pc |-> "idle", n_sources |-> a.n_sources, flooring_fn |-> a.flooring_fn,
     normalization |-> a.normalization,
     solve_permutation |-> a.solve_permutation,
     record_loss |-> a.record_loss, reference_id |-> a.reference_id,
     input |-> NoneVal, unit_input |-> Unset, mixing |-> Unset,
     covariance |-> Unset, posterior |-> Unset, output |-> Unset,
     loss |-> <<>>, n_iter |-> 0, iter |-> 0, calls |-> 0, ret |-> Unset,
     err |-> NoError, trace |-> <<>>]

\* the square root of a rational that is a square
ISqrt(n) == CHOOSE r \in 0..n : r * r = n
RSqrt(q) == <<ISqrt(q[1]), ISqrt(q[2])>>

\* lines 110-114: Z = X / np.linalg.norm(X, axis=0)
CACGMM_unit_input(X) ==
    LET norm == [j \in 1..Len(X.val[1]) |->
                    RSqrt(RSum([c \in 1..Len(X.val) |->
                                   RMul(X.val[c][j], X.val[c][j])],
                               1..Len(X.val)))]
    IN  Array(X.shape, [c \in 1..Len(X.val) |->
                           [j \in 1..Len(X.val[c]) |->
                               RDiv(X.val[c][j], norm[j])]])

\* a diagonal 2 x 2 matrix
Diag2(a, b) == <<<<a, RZero>>, <<RZero, b>>>>

\* _init_parameters, lines 135-155: alpha drawn and normalized over the
\* sources, B diagonal with a drawn diagonal of trace 1, no posterior
CACGMM_init_parameters(n_sources, n_channels, n_bins, pA, pB) ==
    LET a == FillVector(pA, n_sources)
        d == FillMatrix(pB, n_sources, 2)
    IN  [mixing |-> Array(<<n_sources, n_bins>>,
                          [n \in 1..n_sources |->
                              RDiv(a[n], RSum(a, 1..n_sources))]),
         covariance |-> Array(<<n_sources, n_bins, n_channels, n_channels>>,
                              [n \in 1..n_sources |->
                                  Diag2(RDiv(d[n][1], RAdd(d[n][1], d[n][2])),
                                        RDiv(d[n][2], RAdd(d[n][1], d[n][2])))]),
         posterior |-> NoneVal]

\* quadratic(z, B^-1): z^H B^-1 z for a real vector z
CACGMM_quadratic(z, B_inverse) ==
    RSum([c \in 1..2 |-> RMul(z[c], MatVec(B_inverse, z)[c])], 1..2)

\* np.maximum(x, 0)
ClipAtZero(x) == IF RLt(x, RZero) THEN RZero ELSE x

\* lines 411-418 (and 372-379, 433-441, 469-476): z^H B^-1 z for each
\* source and frame, clipped at 0 and floored
CACGMM_ZBZ(Z, B) ==
    [n \in 1..Len(B) |->
        [j \in 1..Len(Z[1]) |->
            max_flooring(ClipAtZero(
                CACGMM_quadratic(<<Z[1][j], Z[2][j]>>, Inverse2(B[n]))))]]

\* lines 420-422: exp(log_gamma), with
\* log_gamma = log(alpha) - logdet(B) - n_channels * log(ZBZ)
CACGMM_posterior_unnormalized(alpha, Z, B, ZBZ) ==
    Array(<<Len(B.val), Z.shape[2], Z.shape[3]>>,
          [n \in 1..Len(B.val) |->
              [j \in 1..Len(Z.val[1]) |->
                  RDiv(alpha.val[n],
                       RMul(Det2(B.val[n]), RPow(ZBZ[n][j], Z.shape[1])))]])

\* softmax(log_gamma, axis=0) given exp(log_gamma)
softmax(w) == Array(w.shape, DivideByColumnSum(w.val))

\* update_posterior, lines 406-426: the posterior of the current parameters
CACGMM_posterior(alpha, Z, B) ==
    softmax(CACGMM_posterior_unnormalized(alpha, Z, B, CACGMM_ZBZ(Z.val, B.val)))

\* the sum over the frames of row n
RowSum(m, n) == RSum(m[n], 1..Len(m[n]))

\* to_psd(B, flooring_fn) on a matrix: made symmetric, its eigenvalues
\* floored; the eigenvalues of the diagonal matrices the model reaches are
\* the diagonal entries
to_psd_entry(B, off, c, d) ==
    IF c # d THEN off
    ELSE IF off = RZero THEN max_flooring(B[c][c]) ELSE B[c][c]

to_psd(B) ==
    [c \in 1..2 |-> [d \in 1..2 |->
        to_psd_entry(B, RMul(<<1, 2>>, RAdd(B[1][2], B[2][1])), c, d)]]

\* lines 443-448: entry (c, d) of n_channels * num / denom for source n
CACGMM_covariance_entry(Z, gamma, ZBZ, n, c, d) ==
    RMul(<<Z.shape[1], 1>>,
         RDiv(RSum([j \in 1..Len(Z.val[1]) |->
                       RMul(RDiv(gamma.val[n][j], ZBZ[n][j]),
                            RMul(Z.val[c][j], Z.val[d][j]))],
                   1..Len(Z.val[1])),
              RowSum(gamma.val, n)))

\* lines 443 and 452: alpha = np.mean(gamma, axis=-1)
CACGMM_new_mixing(gamma) ==
    Array(<<Len(gamma.val), gamma.shape[2]>>,
          [n \in 1..Len(gamma.val) |->
              RDiv(RowSum(gamma.val, n), <<Len(gamma.val[n]), 1>>)])

\* lines 444-450 and 453: the covariance of the M step
CACGMM_new_covariance(Z, B, gamma, ZBZ) ==
    Array(B.shape,
          [n \in 1..Len(B.val) |->
              to_psd([c \in 1..2 |-> [d \in 1..2 |->
                         CACGMM_covariance_entry(Z, gamma, ZBZ, n, c, d)]])])

\* update_parameters, lines 428-453
CACGMM_update_parameters(Z, B, gamma) ==
    [mixing |-> CACGMM_new_mixing(gamma),
     covariance |-> CACGMM_new_covariance(Z, B, gamma, CACGMM_ZBZ(Z.val, B.val))]

\* normalize_covariance, lines 179-186: B / tr(B)
CACGMM_normalize_covariance(B) ==
    Array(B.shape,
          [n \in 1..Len(B.val) |->
              [c \in 1..2 |-> [d \in 1..2 |->
                  RDiv(B.val[n][c][d], RAdd(B.val[n][1][1], B.val[n][2][2]))]]])

\* CACGMM.separate with a posterior, lines 386-390:
\* gamma * X[self.reference_id]
CACGMM_separate(c, X, gamma) ==
    Array(gamma.shape,
          [n \in 1..Len(gamma.val) |->
              [j \in 1..Len(gamma.val[n]) |->
                  RMul(gamma.val[n][j], X.val[c.reference_id + 1][j])]])

\* the rows of a list in the order perm
Permute(v, perm) == [n \in 1..Len(v) |-> v[perm[n]]]

\* the orders of n sources
Orders(n) == {p \in [1..n -> 1..n] : \A i, j \in 1..n : p[i] = p[j] => i = j}

\* a step of a CACGMM call that raised
CACGMM_Raise(e, where) ==
    cacgmm' = [cacgmm EXCEPT !.pc = "raised", !.err = Error(e, where),
                             !.trace = Append(@, where)]

\* the loop of IterativeMethodBase.__call__: after i iterations of n
CACGMM_LoopNext(i, n) == IF i < n THEN "update_posterior" ELSE "finish"

CACGMM_Construct(In) ==
    /\ cacgmm.pc = "start"
    /\ \E a \in In.args : cacgmm' = CACGMM_init(a)
    /\ UNCHANGED <<ILRMA_vars, solver>>

\* CACGMM.__call__ up to the end of _reset (lines 296-298, 105-125)
CACGMM_Call(In) ==
    /\ cacgmm.pc = "idle"
    /\ cacgmm.calls < In.calls
    /\ \E X \in In.mixtures, n \in In.n_iters, initial_call \in BOOLEAN,
          pA \in In.draws, pB \in In.diagonals :
         LET n_sources == IF cacgmm.n_sources = NoSources THEN X.shape[1]
                          ELSE cacgmm.n_sources
             p == CACGMM_init_parameters(n_sources, X.shape[1], X.shape[2], pA, pB)
         IN  /\ n <= MaxIter
             /\ cacgmm' = [cacgmm EXCEPT
                    !.input = X, !.unit_input = CACGMM_unit_input(X),
                    !.n_sources = n_sources,
                    !.mixing = p.mixing, !.covariance = p.covariance,
                    !.posterior = p.posterior,
                    !.n_iter = n, !.iter = 0, !.calls = @ + 1,
                    !.trace = <<"_reset">>,
                    !.pc = IF initial_call THEN "initial"
                           ELSE CACGMM_LoopNext(0, n)]
    /\ UNCHANGED <<ILRMA_vars, solver>>

\* the initial callbacks and loss of the loop; compute_loss (lines 468-486)
\* calls self.flooring_fn
CACGMM_InitialCall ==
    /\ cacgmm.pc = "initial"
    /\ IF cacgmm.record_loss /\ ~Callable(cacgmm.flooring_fn)
       THEN CACGMM_Raise("TypeError", "compute_loss")
       ELSE cacgmm' = [cacgmm EXCEPT
                !.loss = IF cacgmm.record_loss THEN Append(@, cacgmm.iter) ELSE @,
                !.trace = Append(@, "initial_call"),
                !.pc = CACGMM_LoopNext(cacgmm.iter, cacgmm.n_iter)]
    /\ UNCHANGED <<ILRMA_vars, solver>>

\* update_once, line 400: the E step
CACGMM_UpdatePosterior ==
    /\ cacgmm.pc = "update_posterior"
    /\ IF ~Callable(cacgmm.flooring_fn)
       THEN CACGMM_Raise("TypeError", "update_posterior")
       ELSE cacgmm' = [cacgmm EXCEPT
                !.posterior = CACGMM_posterior(cacgmm.mixing, cacgmm.unit_input,
                                               cacgmm.covariance),
                !.trace = Append(@, "update_posterior"),
                !.pc = "update_parameters"]
    /\ UNCHANGED <<ILRMA_vars, solver>>

\* update_once, lines 401-404: the attributes after the M step and the
\* normalization, given what update_parameters computed
CACGMM_after_m_step(c, p) ==
    [c EXCEPT !.mixing = p.mixing,
              !.covariance = IF c.normalization
                             THEN CACGMM_normalize_covariance(p.covariance)
                             ELSE p.covariance,
              !.trace = Append(@, "update_parameters"),
              !.pc = "callback"]

CACGMM_UpdateParameters ==
    /\ cacgmm.pc = "update_parameters"
    /\ cacgmm' = CACGMM_after_m_step(cacgmm,
           CACGMM_update_parameters(cacgmm.unit_input, cacgmm.covariance,
                                    cacgmm.posterior))
    /\ UNCHANGED <<ILRMA_vars, solver>>

\* the loop body after update_once: the loss is recorded, the callbacks run
CACGMM_AfterIteration ==
    /\ cacgmm.pc = "callback"
    /\ cacgmm' = [cacgmm EXCEPT
           !.loss = IF cacgmm.record_loss THEN Append(@, cacgmm.iter + 1) ELSE @,
           !.iter = @ + 1,
           !.trace = Append(@, "callback"),
           !.pc = CACGMM_LoopNext(cacgmm.iter + 1, cacgmm.n_iter)]
    /\ UNCHANGED <<ILRMA_vars, solver>>

\* __call__ without the update of the posterior after the loop: the
\* posterior is left as the loop left it
CACGMM_return_posterior_kept(c, gamma, Y, perm) ==
    [c EXCEPT !.mixing = Array(@.shape, Permute(@.val, perm)),
              !.covariance = Array(@.shape, Permute(@.val, perm)),
              !.output = Array(Y.shape, Permute(Y.val, perm)),
              !.ret = Array(Y.shape, Permute(Y.val, perm)),
              !.trace = Append(@, "separate"),
              !.pc = "idle"]

\* lines 306-333: the output gamma * X[reference_id], the sources of the
\* parameters, the posterior and the output put in the order the solver
\* found, and the return
CACGMM_return(c, gamma, Y, perm) ==
    [c EXCEPT !.mixing = Array(@.shape, Permute(@.val, perm)),
              !.covariance = Array(@.shape, Permute(@.val, perm)),
              !.posterior = Array(gamma.shape, Permute(gamma.val, perm)),
              !.output = Array(Y.shape, Permute(Y.val, perm)),
              !.ret = Array(Y.shape, Permute(Y.val, perm)),
              !.trace = Append(@, "separate"),
              !.pc = "idle"]

CACGMM_finish(c, gamma, perm) ==
    CACGMM_return(c, gamma, CACGMM_separate(c, c.input, gamma), perm)

\* the end of CACGMM.__call__, lines 303-333: the posterior updated, the
\* output computed from it, the sources aligned by the permutation solver
CACGMM_Finish ==
    /\ cacgmm.pc = "finish"
    /\ IF ~Callable(cacgmm.flooring_fn)
       THEN CACGMM_Raise("TypeError", "update_posterior")
       ELSE \E perm \in Orders(cacgmm.n_sources) :
              /\ cacgmm.solve_permutation
                    \/ perm = [n \in 1..cacgmm.n_sources |-> n]
              /\ cacgmm' = CACGMM_finish(cacgmm,
                     CACGMM_posterior(cacgmm.mixing, cacgmm.unit_input,
                                      cacgmm.covariance), perm)
    /\ UNCHANGED <<ILRMA_vars, solver>>

---------------------------------------------------------------------------
(* correlation_based_permutation_solver (_solve_permutation.py). The       *)
(* arrays live in a heap, so that the caller's array and the array the     *)
(* function works on can be the same object: separated is kept in full,    *)
(* [source][bin][frame], a filter as [bin][source] -> row.                 *)

\* the references of the caller's arrays and of a copy made by the call
demix_filter_ref == 1
separated_ref == 2
copy_ref == 3

\* lines 51-56: the array W names
solver_W_always_aliased(overwrite) == demix_filter_ref
solver_W(overwrite) == IF overwrite THEN demix_filter_ref ELSE copy_ref

\* lines 51-56: the heap after W is bound
solver_heap(heap, overwrite) ==
    IF overwrite THEN heap
    ELSE [r \in DOMAIN heap \cup {copy_ref} |->
             IF r = copy_ref THEN heap[demix_filter_ref] ELSE heap[r]]

\* lines 58-61: flooring_fn=None is the identity
solver_flooring(f, x) == IF f = "None" THEN x ELSE max_flooring(x)

\* lines 67-70: P = np.abs(Y).transpose(1, 0, 2) divided by its floored
\* norm over the sources, [bin][source][frame]
solver_norm(Y, f, b, j) ==
    solver_flooring(f, RSqrt(RSum([n \in 1..Len(Y) |->
                                      RMul(RAbs(Y[n][b][j]), RAbs(Y[n][b][j]))],
                                  1..Len(Y))))

solver_P(Y, f) ==
    [b \in 1..Len(Y[1]) |->
        [n \in 1..Len(Y) |->
            [j \in 1..Len(Y[n][b]) |->
                RDiv(RAbs(Y[n][b][j]), solver_norm(Y, f, b, j))]]]

\* line 71: np.sum(P @ P.transpose(0, 2, 1), axis=(1, 2)) for bin b
solver_correlation(P, b) ==
    RSum([j \in 1..Len(P[b][1]) |->
             RMul(RSum([n \in 1..Len(P[b]) |-> P[b][n][j]], 1..Len(P[b])),
                  RSum([n \in 1..Len(P[b]) |-> P[b][n][j]], 1..Len(P[b])))],
         1..Len(P[b][1]))

\* line 72: np.argsort(correlation), ascending, equal values in index order
RECURSIVE argsort_from(_, _)
argsort_from(corr, S) ==
    IF S = {} THEN <<>>
    ELSE LET b == CHOOSE c \in S :
                    \A d \in S \ {c} :
                        RLt(corr[c], corr[d]) \/ (corr[c] = corr[d] /\ c < d)
         IN  <<b>> \o argsort_from(corr, S \ {b})

argsort_descending(corr) ==
    LET a == argsort_from(corr, 1..Len(corr))
    IN  [i \in 1..Len(a) |-> a[Len(a) + 1 - i]]

argsort(corr) == argsort_from(corr, 1..Len(corr))

\* line 65: list(itertools.permutations(range(n_sources))), in
\* lexicographic order
LexLess(p, q) ==
    \E i \in 1..Len(p) : p[i] < q[i] /\ \A k \in 1..(i - 1) : p[k] = q[k]

RECURSIVE LexSorted(_)
LexSorted(S) ==
    IF S = {} THEN <<>>
    ELSE LET p == CHOOSE x \in S : \A y \in S \ {x} : LexLess(x, y)
         IN  <<p>> \o LexSorted(S \ {p})

permutations(n) == LexSorted(Orders(n))

\* line 84: np.sum(P_criteria * P[min_idx, perm, :])
solver_P_perm(P_criteria, Pb, perm) ==
    RSum([n \in 1..Len(Pb) |->
             RSum([j \in 1..Len(Pb[n]) |->
                      RMul(P_criteria[n][j], Pb[perm[n]][j])], 1..Len(Pb[n]))],
         1..Len(Pb))

\* lines 80-87: the first permutation of the list with the largest score
solver_perm_max(P_criteria, Pb, perms) ==
    perms[CHOOSE i \in 1..Len(perms) :
             /\ \A k \in 1..Len(perms) :
                    RLe(solver_P_perm(P_criteria, Pb, perms[k]),
                        solver_P_perm(P_criteria, Pb, perms[i]))
             /\ \A k \in 1..(i - 1) :
                    RLt(solver_P_perm(P_criteria, Pb, perms[k]),
                        solver_P_perm(P_criteria, Pb, perms[i]))]

\* P_criteria = P[min_idx, perm_max, :]: the reference replaced
solver_substitute(P_criteria, Pb, perm) ==
    [n \in 1..Len(Pb) |-> [j \in 1..Len(Pb[n]) |-> Pb[perm[n]][j]]]

\* line 89: P_criteria + P[min_idx, perm_max, :]
solver_accumulate(P_criteria, Pb, perm) ==
    [n \in 1..Len(Pb) |->
        [j \in 1..Len(Pb[n]) |-> RAdd(P_criteria[n][j], Pb[perm[n]][j])]]

\* the rows of bin b copied one after the other inside the array W names,
\* with no temporary: a row read after it was written is the new one
solver_write_row_by_row(heap, W, b, perm) ==
    LET old == heap[W][b]
        new[n \in 1..Len(old)] == IF perm[n] < n THEN new[perm[n]] ELSE old[perm[n]]
    IN  [heap EXCEPT ![W] = [@ EXCEPT ![b] = [n \in 1..Len(old) |-> new[n]]]]

\* line 90: W[min_idx, :, :] = W[min_idx, perm_max, :], written into the
\* array W names
solver_write(heap, W, b, perm) ==
    [heap EXCEPT ![W] = [@ EXCEPT ![b] = Permute(@, perm)]]

\* the rows of the given bins exchanged: a swap of the two sources
SwapBins(bins, A) ==
    [b \in 1..Len(bins) |-> IF b \in A THEN <<bins[b][2], bins[b][1]>> ELSE bins[b]]

\* a spectrogram [source][bin][frame] from its bins [bin][source][frame]
FromBins(bins) ==
    [n \in 1..Len(bins[1]) |-> [b \in 1..Len(bins) |-> bins[b][n]]]

\* the call up to the loop, lines 49-75
solver_Call(In) ==
    /\ solver.pc = "start"
    /\ \E Y0 \in In.separated, W0 \in In.filters, A \in In.swaps,
          overwrite \in BOOLEAN, f \in In.floors :
         LET Y == FromBins(SwapBins(Y0, A))
             heap == solver_heap([r \in {demix_filter_ref, separated_ref} |->
                                     IF r = demix_filter_ref THEN SwapBins(W0, A)
                                     ELSE Y], overwrite)
             P == solver_P(Y, f)
             indices == argsort([b \in 1..Len(P) |-> solver_correlation(P, b)])
         IN  solver' = [pc |-> "loop", overwrite |-> overwrite, flooring_fn |-> f,
                        original |-> W0, swapped |-> A,
                        before |-> heap, heap |-> heap,
                        W |-> solver_W(overwrite),
                        n_bins |-> Len(heap[demix_filter_ref]),
                        n_sources |-> Len(heap[demix_filter_ref][1][1]),
                        P |-> P, indices |-> indices, bin_idx |-> 1,
                        P_criteria |-> P[indices[1]], ret |-> 0]
    /\ UNCHANGED <<ILRMA_vars, cacgmm>>

\* one iteration of the loop over the bins, lines 77-90
solver_Step ==
    /\ solver.pc = "loop"
    /\ solver.bin_idx < solver.n_bins
    /\ LET min_idx == solver.indices[solver.bin_idx + 1]
           perm_max == solver_perm_max(solver.P_criteria, solver.P[min_idx],
                                       permutations(solver.n_sources))
       IN  solver' = [solver EXCEPT
               !.P_criteria = solver_accumulate(@, solver.P[min_idx], perm_max),
               !.heap = solver_write(@, solver.W, min_idx, perm_max),
               !.bin_idx = @ + 1]
    /\ UNCHANGED <<ILRMA_vars, cacgmm>>

\* line 92: return W
solver_Return ==
    /\ solver.pc = "loop"
    /\ solver.bin_idx >= solver.n_bins
    /\ solver' = [solver EXCEPT !.pc = "returned", !.ret = solver.W]
    /\ UNCHANGED <<ILRMA_vars, cacgmm>>

---------------------------------------------------------------------------
(* The inputs of a specification and the specifications.                   *)

Half == <<1, 2>>
Two == <<2, 1>>
\* a draw of the generator below the floor
Tiny == <<1, 30>>

\* the dof and beta a variant is constructed with
Params(v, dofs, betas) ==
    CASE v = "T" -> {[dof |-> d, beta |-> NoParam] : d \in dofs}
      [] v = "GGD" -> {[dof |-> NoParam, beta |-> b] : b \in betas}
      [] OTHER -> {[dof |-> NoParam, beta |-> NoParam]}

\* constructor arguments: the product of the given option sets
Args(vs, dofs, betas, algs, parts, norms, rests, refs, doms, floors, recs) ==
    UNION { { [variant |-> v, n_basis |-> 2, spatial_algorithm |-> s,
               domain |-> d, partitioning |-> p, flooring_fn |-> f,
               normalization |-> n, scale_restoration |-> r,
               record_loss |-> l, reference_id |-> ref,
               dof |-> q.dof, beta |-> q.beta] :
              s \in algs, p \in parts, n \in norms,
              r \in rests, ref \in refs, d \in doms,
              f \in floors, l \in recs, q \in Params(v, dofs, betas) } :
            v \in vs }

Variants == {"Gauss", "T", "GGD"}

\* a mixture of 2 channels, 3 bins and 4 frames
Mixture == Array(<<2, 3, 4>>, <<ROne, Two>>)

\* a filter an IP rule leaves: regular, no entry of its inverse zero
Filter == <<<<ROne, ROne>>, <<<<0 - 1, 1>>, ROne>>>>

\* a regular filter a caller passes as demix_filter
GivenFilter == <<<<Two, ROne>>, <<ROne, ROne>>>>

\* a call without keyword arguments
NoOverride == [name \in {} |-> Unset]

\* Spec: every configuration, valid or not, on one call without overrides
SpecInputs ==
    [args |-> Args(Variants, {<<0 - 1, 1>>, <<100, 1>>}, {Half, Two},
                   spatial_algorithms \cup {"IPA"}, {TRUE, FALSE},
                   {"True", "False", "power", "projection_back", "l2"},
                   {"True", "False", "projection_back",
                    "minimal_distortion_principle"},
                   {NoRef, 0}, {2, 3}, {"max_flooring"}, {TRUE, FALSE}),
     calls |-> 1,
     mixtures |-> {Mixture},
     n_iters |-> 0..MaxIter,
     overrides |-> [p \in BOOLEAN |-> {NoOverride}],
     draws |-> {<<Half>>},
     factors |-> {<<ROne>>},
     psis |-> {<<Two, Half>>},
     filters |-> {Filter},
     separated |-> {<<Two, Half>>}]

\* SpecNMF: valid configurations on one call of MaxIter iterations, with
\* draws below the floor and factors and psi away from one
NMFInputs ==
    [args |-> Args(Variants, {<<100, 1>>}, {Half}, {"IP1", "ISS1"}, {TRUE, FALSE},
                   {"True", "False"}, {"False"}, {NoRef}, {1, 2},
                   {"max_flooring"}, {FALSE}),
     calls |-> 1,
     mixtures |-> {Mixture},
     n_iters |-> {MaxIter},
     overrides |-> [p \in BOOLEAN |-> {NoOverride}],
     draws |-> {<<Half>>, <<Tiny, Half, Half>>},
     factors |-> {<<ROne>>, <<Half, ROne, ROne>>},
     psis |-> {<<Two, ROne>>},
     filters |-> {Filter},
     separated |-> {<<Two, Half>>}]

\* keyword arguments of a call: arrays of the expected shape and arrays of
\* another, in the layout of the partitioning (p) or of the other mode
LatentOverride == Array(<<2, 2>>, <<<<Half, <<1, 4>>>>, <<<<1, 4>>, <<1, 4>>>>>>)

Overrides(p) ==
    LET K == 3
        T == IF p THEN Array(<<3, K>>, FillVector(<<Half>>, K))
             ELSE Array(<<2, 3, K>>, FillMatrix(<<Half>>, 2, K))
        V == IF p THEN Array(<<K, 4>>, FillVector(<<Two>>, K))
             ELSE Array(<<2, K, 4>>, FillMatrix(<<Two>>, 2, K))
        Z == Array(<<2, K>>, FillMatrix(<<Half>>, 2, K))
    IN  { NoOverride,
          [latent |-> LatentOverride],
          [basis |-> T],
          IF p THEN [latent |-> Z, basis |-> T, activation |-> V]
          ELSE [basis |-> T, activation |-> V],
          [demix_filter |-> Array(<<3, 2, 2>>, GivenFilter)],
          [demix_filter |-> Array(<<3, 2, 3>>, Filter)] }

\* SpecOverrides: a slice of the valid configurations on one call with
\* keyword arguments
OverridesInputs ==
    [args |-> Args({"Gauss", "T"}, {<<100, 1>>}, {Half}, {"IP1", "ISS1", "ISS2"},
                   {TRUE, FALSE}, {"power", "False"}, {"True", "False"}, {0},
                   {2}, {"max_flooring"}, {TRUE, FALSE}),
     calls |-> 1,
     mixtures |-> {Mixture},
     n_iters |-> 0..MaxIter,
     overrides |-> [p \in BOOLEAN |-> Overrides(p)],
     draws |-> {<<Half>>},
     factors |-> {<<ROne>>},
     psis |-> {<<Two, Half>>},
     filters |-> {Filter},
     separated |-> {<<Two, Half>>}]

\* SpecCalls: a slice of the valid configurations called MaxCalls times on
\* the same object
CallsInputs ==
    [args |-> Args({"Gauss"}, {<<100, 1>>}, {Half}, {"IP1", "ISS1"},
                   {TRUE, FALSE}, {"power", "False"}, {"True", "False"}, {0},
                   {2}, {"max_flooring"}, {FALSE}),
     calls |-> MaxCalls,
     mixtures |-> {Mixture},
     n_iters |-> 0..1,
     overrides |-> [p \in BOOLEAN |-> {NoOverride,
                                       [basis |-> init_basis([partitioning |-> p,
                                                              n_basis |-> 2,
                                                              flooring_fn |-> "max_flooring"],
                                                             Mixture, <<Two>>)],
                                       [demix_filter |-> Array(<<3, 2, 2>>, Filter)]}],
     draws |-> {<<Half>>},
     factors |-> {<<Half, Two, ROne>>},
     psis |-> {<<Two, Half>>},
     filters |-> {Filter},
     separated |-> {<<Two, Half>>}]

\* SpecBase: objects of ILRMAbase itself, called and with methods invoked
\* directly
BaseInputs ==
    [args |-> {[variant |-> "Base", n_basis |-> 2, partitioning |-> p,
                flooring_fn |-> f, scale_restoration |-> r, record_loss |-> l,
                reference_id |-> ref] :
               p \in {TRUE, FALSE}, f \in {"max_flooring", "None"},
               r \in {"True", "False"}, l \in {TRUE, FALSE}, ref \in {NoRef, 0}},
     calls |-> MaxCalls,
     mixtures |-> {Mixture},
     n_iters |-> 0..MaxIter,
     overrides |-> [p \in BOOLEAN |-> {NoOverride,
                                       [demix_filter |-> Array(<<3, 2, 2>>, Filter)]}],
     draws |-> {<<Half>>},
     factors |-> {<<ROne>>},
     psis |-> {<<Two, Half>>},
     filters |-> {Filter},
     separated |-> {<<Two, Half>>}]

NextBase(In) ==
    \/ Construct(In)
    \/ Call(In)
    \/ InitialCall
    \/ UpdateOnce
    \/ Invoke
    \/ Finish(In)

Next(In) ==
    \/ Construct(In)
    \/ Call(In)
    \/ InitialCall
    \/ UpdateLatent(In)
    \/ UpdateBasis(In)
    \/ UpdateActivation(In)
    \/ UpdateSpatialModel(In)
    \/ Normalize(In)
    \/ AfterIteration
    \/ Finish(In)

Spec == Init /\ [][Next(SpecInputs)]_vars
SpecNMF == Init /\ [][Next(NMFInputs)]_vars
SpecOverrides == Init /\ [][Next(OverridesInputs)]_vars
SpecCalls == Init /\ [][Next(CallsInputs)]_vars
\* SpecProjectionBack: the IP family normalized by projection back and
\* restored by projection back, with several filters left by the spatial
\* update: regular ones, one whose scaled filter is singular, a singular one
ProjectionBackInputs ==
    [args |-> Args({"Gauss"}, {<<100, 1>>}, {Half}, {"IP1", "IP2"},
                   {TRUE, FALSE}, {"projection_back"},
                   {"True", "projection_back"}, {0, 1}, {2},
                   {"max_flooring"}, {FALSE}),
     calls |-> 1,
     mixtures |-> {Mixture},
     n_iters |-> 0..MaxIter,
     overrides |-> [p \in BOOLEAN |-> {NoOverride}],
     draws |-> {<<Half>>},
     factors |-> {<<ROne>>},
     psis |-> {<<Two, Half>>},
     filters |-> {Filter,
                  <<<<Two, ROne>>, <<ROne, ROne>>>>,
                  <<<<ROne, Two>>, <<<<3, 1>>, <<4, 1>>>>>>,
                  <<<<Two, RZero>>, <<RZero, Half>>>>,
                  <<<<ROne, ROne>>, <<ROne, ROne>>>>},
     separated |-> {<<Two, Half>>}]

\* SpecCACGMM: CACGMM objects of every configuration, called once; the
\* frames of a mixture are multiples of unit vectors, the mixing weights
\* drawn differ between the sources
CACGMMMixture == Array(<<2, 3, 2>>, <<<<Two, RZero>>, <<RZero, Half>>>>)

CACGMMInputs ==
    [args |-> [n_sources : {NoSources, 3}, flooring_fn : {"max_flooring", "None"},
               normalization : BOOLEAN, solve_permutation : BOOLEAN,
               record_loss : BOOLEAN, reference_id : {0, 1}],
     calls |-> 1,
     mixtures |-> {CACGMMMixture},
     n_iters |-> 0..MaxIter,
     draws |-> {<<Half>>, <<Half, ROne, Two>>},
     diagonals |-> {<<Half>>, <<Half, ROne>>}]

NextCACGMM(In) ==
    \/ CACGMM_Construct(In)
    \/ CACGMM_Call(In)
    \/ CACGMM_InitialCall
    \/ CACGMM_UpdatePosterior
    \/ CACGMM_UpdateParameters
    \/ CACGMM_AfterIteration
    \/ CACGMM_Finish

\* SpecSolver: two sources, four bins, two frames. In every bin the first
\* source dominates the first frame and the second source the second; the
\* bins differ in how sharply (the first bin has one of the two patterns in
\* which the first source is silent in the second frame). The rows of the
\* original filter name their bin and source, and the sources of half of
\* the bins are swapped in the filter and the spectrogram given to the
\* solver.
BinPatterns ==
    { <<<<ROne, RZero>>, <<RZero, ROne>>>>,
      <<<<<<4, 1>>, <<3, 1>>>>, <<<<3, 1>>, <<4, 1>>>>>>,
      <<<<<<12, 1>>, <<5, 1>>>>, <<<<5, 1>>, <<12, 1>>>>>>,
      <<<<<<4, 1>>, RZero>>, <<<<3, 1>>, ROne>>>> }

OriginalFilter ==
    [b \in 1..4 |-> [n \in 1..2 |-> <<<<10 * b + n, 1>>, <<n, 1>>>>]]

SolverInputs ==
    [separated |-> {Y \in [1..4 -> BinPatterns] :
                       /\ \A b, c \in 1..4 : Y[b] = Y[c] => b = c
                       /\ Y[1][1][2] = RZero},
     filters |-> {OriginalFilter},
     swaps |-> {A \in SUBSET (1..4) : Cardinality(A) = 2},
     floors |-> {"max_flooring", "None"}]

NextSolver(In) ==
    \/ solver_Call(In)
    \/ solver_Step
    \/ solver_Return

SpecBase == Init /\ [][NextBase(BaseInputs)]_vars
SpecCACGMM == Init /\ [][NextCACGMM(CACGMMInputs)]_vars
SpecSolver == Init /\ [][NextSolver(SolverInputs)]_vars
SpecProjectionBack == Init /\ [][Next(ProjectionBackInputs)]_vars

---------------------------------------------------------------------------
(* Properties.                                                             *)

Last(q) == q[Len(q)]
Constructed == cfg.kind = "object"

\* C1: a completed call returns an array of the shape of the mixture it was
\* given, for every variant, spatial algorithm, partitioning, normalization
\* and scale-restoration setting and every n_iter >= 0.
C1_OutputShapeIsMixtureShape ==
    ret # Unset => (IsArray(ret) /\ ret.shape = input.shape)

\* a GGD separator with ISS2 and partitioning returned after MaxIter
\* iterations with power normalization and scale restoration
C1_Witness ==
    /\ pc = "idle" /\ ret # Unset /\ iter = MaxIter
    /\ cfg.variant = "GGD" /\ cfg.spatial_algorithm = "ISS2" /\ cfg.partitioning
    /\ cfg.normalization = "power" /\ cfg.scale_restoration = "projection_back"

\* the configurations the error taxonomy calls invalid
InvalidConfiguration(c) ==
    \/ c.partitioning /\ c.normalization = "projection_back"
    \/ Truthy(c.normalization) /\ NormalizeRule(c) = "NotImplementedError"
    \/ Truthy(c.scale_restoration) /\ RestoreRule(c) = "ValueError"
    \/ Truthy(c.scale_restoration) /\ c.reference_id = NoRef
    \/ ~(1 <= c.domain /\ c.domain <= 2)

\* C3 (as claimed): every invalid configuration is rejected during
\* construction or reset, before the first update_once of a call and before
\* any state tensor is updated; no error is raised once an update_once has
\* started or after the iterations.
C3_ConfigurationErrorsFailFast ==
    /\ err # NoError => (pc = "failed" \/ (pc = "raised" /\ trace = <<"_reset">>))
    /\ (Constructed /\ InvalidConfiguration(cfg)) =>
           pc \in {"idle", "initial", "raised"} /\ ret = Unset

\* C5: with partitioning and normalization="projection_back", a call with
\* n_iter >= 1 raises NotImplementedError at the first normalization (after
\* the first source-model and spatial update, before any callback of an
\* iteration) and returns nothing.
C5_PartitioningProjectionBackRaises ==
    (Constructed /\ cfg.partitioning /\ cfg.normalization = "projection_back") =>
        /\ pc \notin {"callback"}
        /\ iter = 0
        /\ (calls > 0 /\ n_iter >= 1) => (ret = Unset /\ pc # "restore_scale")
        /\ (pc = "raised" /\ n_iter >= 1) =>
              /\ err = Error("NotImplementedError", "normalize")
              /\ trace = <<"_reset", "initial_call", "update_latent",
                           "update_basis", "update_activation",
                           SpatialRule(cfg), "normalize">>

\* the call of such a separator has raised at its first normalization
C5_Witness ==
    /\ Constructed /\ cfg.partitioning /\ cfg.normalization = "projection_back"
    /\ n_iter = MaxIter /\ pc = "raised" /\ Last(trace) = "normalize"
    /\ err.type = "NotImplementedError"

\* C6: constructing with reference_id=None and scale restoration enabled
\* raises ValueError and creates no object; with scale restoration disabled
\* reference_id=None is not a reason to reject.
C6_ReferenceIdRequired ==
    (cfg # Unset /\ cfg.reference_id = NoRef) =>
        IF Truthy(cfg.scale_restoration)
        THEN ~Constructed /\ pc = "failed" /\ err = Error("ValueError", "__init__")
        ELSE (Constructed \/ err = Error("AssertionError", "__init__"))
             /\ (Constructed <=>
                   /\ cfg.spatial_algorithm \in spatial_algorithms
                   /\ 1 <= cfg.domain /\ cfg.domain <= 2
                   /\ cfg.variant = "GGD" =>
                          (RLt(RZero, cfg.beta) /\ RLt(cfg.beta, Two)))

\* construction with scale_restoration="projection_back" and no reference
\* channel was rejected
C6_Witness ==
    /\ pc = "failed" /\ cfg.reference_id = NoRef
    /\ cfg.scale_restoration = "projection_back"
    /\ err = Error("ValueError", "__init__")

\* C7 (as claimed): no separator object exists whose shape parameter is out
\* of range: beta of GGD-ILRMA lies in (0, 2), dof of t-ILRMA is positive.
C7_ShapeParameterInRange ==
    Constructed =>
        /\ cfg.variant = "GGD" => (RLt(RZero, cfg.beta) /\ RLt(cfg.beta, Two))
        /\ cfg.variant = "T" => RLt(RZero, cfg.dof)

\* the keyword arguments of the running call name an array whose shape is
\* not the one the mixture and n_basis give
MismatchingOverride ==
    \E name \in DOMAIN kwargs : kwargs[name].shape # ExpectedShape(cfg, input, name)

\* C4 (as claimed): a call given an override of a mismatching shape fails
\* with a shape-mismatch error during reset, before the first update_once;
\* a mismatching override is never silently accepted.
C4_MismatchingOverrideFailsInReset ==
    (calls > 0 /\ MismatchingOverride) =>
        /\ pc = "raised"
        /\ err = Error("ValueError", "_reset")
        /\ trace = <<"_reset">>

\* what _reset leaves when nothing is carried over: the attributes the
\* running call did not override, freshly initialised
FreshlyInitialised(In) ==
    /\ "demix_filter" \notin DOMAIN kwargs =>
           demix_filter = IF cfg.spatial_algorithm \in IPFamily
                          THEN Eye(input.shape[1], input.shape[1], input.shape[2])
                          ELSE NoneVal
    /\ "basis" \notin DOMAIN kwargs =>
           basis \in {init_basis(cfg, input, q) : q \in In.draws}
    /\ "activation" \notin DOMAIN kwargs =>
           activation \in {init_activation(cfg, input, q) : q \in In.draws}
    /\ (cfg.partitioning /\ "latent" \notin DOMAIN kwargs) =>
           latent \in {init_latent(cfg, input, q) : q \in In.draws}

\* C2 (as claimed): every call starts from a freshly initialised state: at
\* the start of its iteration loop the filter and the NMF parameters are
\* freshly initialised unless this call's keyword arguments override them,
\* and a reset without overrides does not fail; nothing of an earlier call
\* is carried over.
C2_EveryCallStartsFresh ==
    /\ pc = "initial" => FreshlyInitialised(CallsInputs)
    /\ (pc = "raised" /\ trace = <<"_reset">>) => kwargs # NoOverride

Partitioning == Constructed /\ cfg.partitioning

\* for every basis index k, the sum over the sources n of Z[n, k] is 1
LatentSumsToOne ==
    \A k \in 1..Len(latent.val[1]) : ColumnSum(latent.val, k) = ROne

\* C8: in partitioning mode, right after every update_latent (Gauss, t and
\* GGD) and right after every power normalization, for every basis index k
\* the latent weights sum to one over the sources.
C8_LatentNormalizedAfterUpdate ==
    (Partitioning /\ \/ pc = "update_basis"
                     \/ (pc = "callback" /\ Last(trace) = "normalize"))
        => LatentSumsToOne

\* a latent that is not uniform any more was updated in the second
\* iteration, and one was normalized by power in the second iteration
C8_Witness ==
    /\ Partitioning /\ iter = 1
    /\ latent.val[1][1] # latent.val[2][1]
    /\ \/ pc = "update_basis" /\ cfg.variant = "GGD"
       \/ pc = "callback" /\ Last(trace) = "normalize" /\ cfg.variant = "T"

\* C9 (as claimed): in partitioning mode, in every state a callback
\* observes, the initial one included, for every basis index k the latent
\* weights sum to one over the sources, also when the latent was given as
\* an override and when the flooring clipped entries at initialisation.
C9_LatentNormalizedAtCallbacks ==
    (Partitioning /\ pc \in {"initial", "callback"}) => LatentSumsToOne

AtLeastEps(x) == RLe(EPS, x)

VectorAtLeastEps(v) == \A k \in 1..Len(v) : AtLeastEps(v[k])

MatrixAtLeastEps(m) == \A n \in 1..Len(m) : VectorAtLeastEps(m[n])

\* basis and activation hold one row per source unless the object partitions
AllAtLeastEps(a) ==
    IF cfg.partitioning THEN VectorAtLeastEps(a.val) ELSE MatrixAtLeastEps(a.val)

\* C10 (as claimed): with the default flooring, after every completed
\* update_once all entries of the basis, the activation and, in
\* partitioning mode, the latent are at least eps.
C10_ParametersFlooredAfterUpdateOnce ==
    (Constructed /\ cfg.flooring_fn = "max_flooring" /\ pc = "callback") =>
        /\ AllAtLeastEps(basis)
        /\ AllAtLeastEps(activation)
        /\ cfg.partitioning => MatrixAtLeastEps(latent.val)

\* the attributes of the separator object
attributes == <<cfg, input, demix_filter, output, basis, activation, latent,
                loss, rng>>

\* C11 (as claimed): separate, update_once and compute_loss invoked on the
\* base ILRMA class each raise the not-implemented error and change no
\* state.
C11_BaseMethodsNotImplemented ==
    (Constructed /\ cfg.variant = "Base"
       /\ trace \in {<<"separate">>, <<"update_once">>, <<"compute_loss">>})
        => err = Error("NotImplementedError", trace[1])

\* C11 (amended): on the base ILRMA class update_once and compute_loss
\* raise the not-implemented error, invoked directly or by the loop of a
\* call, and change no attribute; separate is implemented there: it returns
\* the filter applied to the mixture and changes no attribute.
C11_BaseUpdateAndLossNotImplemented ==
    [][(cfg'.kind = "object" /\ cfg'.variant = "Base") =>
          /\ trace' \in {<<"update_once">>, <<"compute_loss">>} =>
                /\ err' = Error("NotImplementedError", trace'[1])
                /\ UNCHANGED attributes
          /\ trace' = <<"separate">> =>
                /\ err' = NoError
                /\ ret' = separate(input, demix_filter)
                /\ UNCHANGED attributes
          /\ (pc' = "raised" /\ trace' # <<>> /\ Last(trace') = "update_once") =>
                /\ err' = Error("NotImplementedError", "update_once")
                /\ UNCHANGED attributes
          /\ pc' # "callback"]_vars

\* update_once was invoked directly on a base object after a completed call
C11_Witness ==
    /\ Constructed /\ cfg.variant = "Base" /\ calls >= 1 /\ ret # Unset
    /\ trace = <<"update_once">>
    /\ err = Error("NotImplementedError", "update_once")

\* C12: with record_loss enabled, after a completed call with n_iter
\* iterations on a fresh separator the recorded loss sequence has exactly
\* n_iter + 1 entries: the loss of the initial state, then the loss after
\* each update_once in iteration order, each one number; with record_loss
\* disabled nothing is recorded.
C12_LossSequence ==
    (Constructed /\ calls = 1 /\ pc = "idle" /\ ret # Unset) =>
        IF cfg.record_loss
        THEN loss = [i \in 1..(n_iter + 1) |-> i - 1]
        ELSE loss = <<>>

\* a call of MaxIter iterations returned with its losses recorded
C12_Witness ==
    /\ Constructed /\ cfg.record_loss /\ pc = "idle" /\ ret # Unset
    /\ n_iter = MaxIter /\ Len(loss) = MaxIter + 1

\* C13: in the ISS family, from the end of _reset until the call returns
\* and on the object it leaves (every callback and a call that raised later
\* included), demix_filter is None and the separated spectrogram is an
\* array, also when the call was given a demix_filter override.
C13_ISSKeepsNoDemixFilter ==
    (/\ Constructed /\ cfg.spatial_algorithm \notin IPFamily
     /\ calls >= 1
     /\ ~(pc = "raised" /\ err.in = "_reset")) =>
        /\ demix_filter = NoneVal
        /\ IsArray(output)

\* an ISS call with a demix_filter override at a callback, no filter kept
C13_Witness ==
    /\ Constructed /\ cfg.spatial_algorithm = "ISS1"
    /\ "demix_filter" \in DOMAIN kwargs
    /\ pc = "callback" /\ iter = 1
    /\ demix_filter = NoneVal /\ IsArray(output)

\* C14: a call never modifies the caller's mixture array, and the copy of
\* it the object holds is never modified: in every state of a call and
\* after it, for every configuration, both are the array that was passed,
\* whatever update, normalization or scale restoration has run.
C14_InputNeverModified ==
    (Constructed /\ calls >= 1) =>
        /\ IsArray(caller_input)
        /\ input = caller_input
        /\ caller_input \in SpecInputs.mixtures

\* a call that ran a power normalization and a scale restoration and returned
C14_Witness ==
    /\ Constructed /\ pc = "idle" /\ ret # Unset /\ iter >= 1
    /\ NormalizeRule(cfg) = "power"
    /\ Last(trace) = "restore_scale"
    /\ input = caller_input

\* C15: in the IP family, at every callback after an iteration the output
\* is the current demixing filter applied to the input.
C15_OutputCurrentAtCallbacks ==
    (Constructed /\ cfg.spatial_algorithm \in IPFamily /\ pc = "callback") =>
        output = separate(input, demix_filter)

\* C16: a separator constructed with flooring_fn=None uses the identity as
\* flooring, for CACGMM as for ILRMA: no step of a call on it raises an
\* error from applying the flooring function.
C16_FlooringNoneIsIdentity ==
    (cacgmm.pc # "start" /\ cacgmm.flooring_fn = "None") =>
        cacgmm.err = NoError

\* the filter the solver returned
Returned == solver.heap[solver.ret]

\* the bin with the least total self-correlation of its normalized pattern
LeastCorrelatedBin ==
    CHOOSE b \in 1..Len(solver.P) :
        \A c \in 1..Len(solver.P) \ {b} :
            RLt(solver_correlation(solver.P, b), solver_correlation(solver.P, c))

\* C17 as claimed: for two sources and a swap applied to half of the bins,
\* the returned filter has the original source order in every bin.
C17_OriginalOrderRecovered ==
    solver.pc = "returned" => Returned = solver.original

\* C17: for two sources whose patterns agree across the bins and a swap
\* applied to half of the bins, the returned filter has in every bin the
\* source order of the least-correlated bin as given: the original order
\* when that bin was not swapped, the original order with the sources
\* exchanged in every bin when it was.
C17_OrderOfReferenceBinRecovered ==
    solver.pc = "returned" =>
        Returned = IF LeastCorrelatedBin \in solver.swapped
                   THEN SwapBins(solver.original, 1..Len(solver.original))
                   ELSE solver.original

\* a call whose least-correlated bin was among the swapped ones returned
C17_Witness ==
    /\ solver.pc = "returned"
    /\ LeastCorrelatedBin \in solver.swapped
    /\ Returned # solver.original
    /\ Returned = SwapBins(solver.original, 1..Len(solver.original))

\* C18: with overwrite=False the solver leaves the caller's demix_filter
\* as it was and returns another array; with overwrite=True it returns the
\* caller's array, permuted in place; the separated argument is not
\* modified in either mode.
C18_OverwriteSemantics ==
    solver.pc # "start" =>
        /\ solver.heap[separated_ref] = solver.before[separated_ref]
        /\ ~solver.overwrite =>
              solver.heap[demix_filter_ref] = solver.before[demix_filter_ref]
        /\ solver.pc = "returned" =>
              /\ solver.ret = demix_filter_ref <=> solver.overwrite
              /\ solver.ret \in DOMAIN solver.heap
              /\ \A b \in 1..solver.n_bins :
                    \E perm \in Orders(solver.n_sources) :
                        Returned[b] = Permute(solver.before[demix_filter_ref][b], perm)

\* a call with overwrite=False returned a filter with rows permuted, the
\* caller's filter being as it was
C18_Witness ==
    /\ solver.pc = "returned" /\ ~solver.overwrite
    /\ Returned # solver.before[demix_filter_ref]
    /\ solver.heap[demix_filter_ref] = solver.before[demix_filter_ref]

---------------------------------------------------------------------------
(* Claims C21..C30.                                                        *)

\* C21 (as claimed): constructing TILRMA or GGDILRMA with the spatial
\* algorithm name 'IPA' raises ValueError at construction and creates no
\* separator object.
C21_IPARaisesValueError ==
    (cfg # Unset /\ cfg.variant \in {"T", "GGD"} /\ cfg.spatial_algorithm = "IPA") =>
        ~Constructed /\ pc = "failed" /\ err = Error("ValueError", "__init__")

\* keyword arguments of a call that name an option of the object
AlgorithmOverrides == {NoOverride, [spatial_algorithm |-> "ISS1"],
                       [spatial_algorithm |-> "IP1"]}

\* SpecKeywords: separators of both families called MaxCalls times, with
\* and without a keyword argument naming spatial_algorithm
KeywordsInputs ==
    [args |-> Args({"Gauss", "T"}, {<<100, 1>>}, {Half}, {"IP1", "ISS1"},
                   {TRUE, FALSE}, {"power", "False"}, {"True", "False"}, {0},
                   {2}, {"max_flooring"}, {FALSE}),
     calls |-> MaxCalls,
     mixtures |-> {Mixture},
     n_iters |-> 0..1,
     overrides |-> [p \in BOOLEAN |-> AlgorithmOverrides],
     draws |-> {<<Half>>},
     factors |-> {<<ROne>>},
     psis |-> {<<Two, Half>>},
     filters |-> {Filter},
     separated |-> {<<Two, Half>>}]

SpecKeywords == Init /\ [][Next(KeywordsInputs)]_vars

\* C22 (as claimed): the rule update_spatial_model dispatches to is the one
\* chosen at construction: no step taken on a constructed separator, a call
\* with keyword arguments included, changes it.
C22_AlgorithmFixedAtConstruction ==
    [][Constructed => SpatialRule(cfg') = SpatialRule(cfg)]_vars

\* the last k entries of a sequence
LastEntries(q, k) == SubSeq(q, Len(q) - k + 1, Len(q))

\* the steps of update_source_model the claim names
source_model_steps(c) ==
    (IF c.partitioning THEN <<"update_latent">> ELSE <<>>)
        \o <<"update_basis", "update_activation">>

\* the steps of one update_once the claim names
update_once_steps(c) ==
    source_model_steps(c) \o <<SpatialRule(c)>>
        \o (IF Truthy(c.normalization) THEN <<"normalize">> ELSE <<>>)

\* the step the loop ran right before an update_once
BetweenUpdates == {"_reset", "initial_call", "callback"}

\* C23: within every update_once of a variant the steps run in the order
\* latent update (partitioning only), basis update, activation update,
\* spatial update, normalization (if and only if enabled): an update_once
\* that has returned ran exactly these steps, and the spatial update starts
\* right after the source-model updates of the same update_once.
C23_StepOrder ==
    /\ (Constructed /\ pc = "callback") =>
          /\ Len(trace) > Len(update_once_steps(cfg))
          /\ LastEntries(trace, Len(update_once_steps(cfg))) = update_once_steps(cfg)
          /\ trace[Len(trace) - Len(update_once_steps(cfg))] \in BetweenUpdates
    /\ (Constructed /\ pc = "update_spatial_model") =>
          /\ Len(trace) > Len(source_model_steps(cfg))
          /\ LastEntries(trace, Len(source_model_steps(cfg))) = source_model_steps(cfg)
          /\ trace[Len(trace) - Len(source_model_steps(cfg))] \in BetweenUpdates

\* the last update_once of a call of a partitioning GGD-ILRMA with
\* normalization has returned
C23_Witness ==
    /\ Constructed /\ cfg.variant = "GGD" /\ cfg.partitioning
    /\ Truthy(cfg.normalization) /\ pc = "callback" /\ iter = n_iter - 1
    /\ n_iter = MaxIter /\ Last(trace) = "normalize"

\* how many entries of q are x
Count(q, x) == Cardinality({i \in 1..Len(q) : q[i] = x})

\* the steps of a call during which update_once or a callback runs
InLoop == {"initial", "update_latent", "update_basis", "update_activation",
           "update_spatial_model", "normalize", "callback"}

\* C24: within one call update_once runs exactly n_iter times and scale
\* restoration runs exactly once, after the last update_once and the last
\* callback, and only if it is enabled; no callback runs on restored state.
C24_IterationsThenRestoration ==
    /\ (Constructed /\ cfg.variant # "Base" /\ pc = "restore_scale") =>
          /\ iter = n_iter
          /\ Count(trace, "update_basis") = n_iter
          /\ Count(trace, SpatialRule(cfg)) = n_iter
          /\ Count(trace, "callback") = n_iter
          /\ Count(trace, "restore_scale") = 0
    /\ (Constructed /\ cfg.variant # "Base" /\ pc = "idle" /\ ret # Unset) =>
          /\ Count(trace, "update_basis") = n_iter
          /\ Count(trace, SpatialRule(cfg)) = n_iter
          /\ Count(trace, "callback") = n_iter
          /\ Count(trace, "restore_scale")
                 = (IF Truthy(cfg.scale_restoration) THEN 1 ELSE 0)
          /\ Truthy(cfg.scale_restoration) => Last(trace) = "restore_scale"
    /\ (Constructed /\ pc \in InLoop) => Count(trace, "restore_scale") = 0

\* a call of MaxIter iterations with scale restoration has returned
C24_Witness ==
    /\ Constructed /\ pc = "idle" /\ ret # Unset /\ n_iter = MaxIter
    /\ Truthy(cfg.scale_restoration)
    /\ Count(trace, "callback") = MaxIter /\ Last(trace) = "restore_scale"

\* SpecSolver3: three sources, three bins, two frames. The magnitudes of a
\* frame have an integer norm; the sources of the second and third bin come
\* in every order.
BinPatterns3 ==
    [first |-> { <<<<Two, ROne>>, <<ROne, Two>>, <<Two, Two>>>>,
                 <<<<ROne, RZero>>, <<RZero, Two>>, <<RZero, RZero>>>> },
     second |-> <<<<<<6, 1>>, <<2, 1>>>>, <<<<2, 1>>, <<6, 1>>>>, <<<<3, 1>>, <<3, 1>>>>>>,
     third |-> <<<<<<4, 1>>, RZero>>, <<RZero, <<4, 1>>>>, <<<<3, 1>>, <<3, 1>>>>>>]

OriginalFilter3 ==
    [b \in 1..3 |-> [n \in 1..3 |-> <<<<10 * b + n, 1>>, <<n, 1>>, <<b, 1>>>>]]

SolverInputs3 ==
    [separated |-> {<<p, Permute(BinPatterns3.second, q), Permute(BinPatterns3.third, r)>> :
                       p \in BinPatterns3.first, q \in Orders(3), r \in Orders(3)},
     filters |-> {OriginalFilter3},
     swaps |-> {{}},
     floors |-> {"max_flooring", "None"}]

SpecSolver3 == Init /\ [][NextSolver(SolverInputs3)]_vars

\* the order in which the rows of bin b of W are the rows given
AppliedOrder(b) ==
    CHOOSE perm \in Orders(solver.n_sources) :
        solver.heap[solver.W][b] = Permute(solver.before[demix_filter_ref][b], perm)

\* the normalized pattern of the i-th visited bin in the order given to it
AlignedPattern(i) ==
    Permute(solver.P[solver.indices[i]], AppliedOrder(solver.indices[i]))

\* the sum of the products of the entries of two patterns
Dot(A, B) ==
    RSum([n \in 1..Len(A) |->
             RSum([j \in 1..Len(A[n]) |-> RMul(A[n][j], B[n][j])], 1..Len(A[n]))],
         1..Len(A))

\* the pattern of the first visited bin plus the aligned patterns of the
\* bins visited up to the i-th
RECURSIVE Reference(_)
Reference(i) ==
    IF i = 1 THEN solver.P[solver.indices[1]]
    ELSE [n \in 1..Len(Reference(i - 1)) |->
             [j \in 1..Len(Reference(i - 1)[n]) |->
                 RAdd(Reference(i - 1)[n][j], AlignedPattern(i)[n][j])]]

Identity(n) == [i \in 1..n |-> i]

\* C25: the solver visits the bins in ascending order of total
\* self-correlation; the first visited bin is the first reference and keeps
\* its rows as given; every bin visited later gets an order that maximises,
\* over all orders of the sources, the dot product of its pattern with the
\* reference accumulated so far; the reference is the sum of the first
\* pattern and the aligned patterns; a bin not yet visited is as given.
C25_GreedyAlignment ==
    solver.pc # "start" =>
        /\ {solver.indices[i] : i \in 1..solver.n_bins} = 1..solver.n_bins
        /\ \A i, k \in 1..solver.n_bins :
               i < k => RLe(solver_correlation(solver.P, solver.indices[i]),
                            solver_correlation(solver.P, solver.indices[k]))
        /\ AppliedOrder(solver.indices[1]) = Identity(solver.n_sources)
        /\ \A i \in 2..solver.bin_idx :
               \A perm \in Orders(solver.n_sources) :
                   RLe(Dot(Reference(i - 1),
                           Permute(solver.P[solver.indices[i]], perm)),
                       Dot(Reference(i - 1), AlignedPattern(i)))
        /\ solver.P_criteria = Reference(solver.bin_idx)
        /\ \A i \in (solver.bin_idx + 1)..solver.n_bins :
               AppliedOrder(solver.indices[i]) = Identity(solver.n_sources)

\* a call on three sources returned, its reference was not the first bin
\* and one bin was given a cyclic order
C25_Witness ==
    /\ solver.pc = "returned" /\ solver.n_sources = 3
    /\ solver.indices[1] # 1
    /\ \E b \in 1..solver.n_bins : AppliedOrder(b) = <<2, 3, 1>>

\* reconstruct_nmf (lines 275-282) at the representative bin and frame, for
\* source n: sum_k T V, or sum_k Z T V with a latent
nmf_reconstruction(c, Z, T, V, n) ==
    IF c.partitioning
    THEN RSum([k \in 1..Len(T.val) |->
                  RMul(Z.val[n][k], RMul(T.val[k], V.val[k]))], 1..Len(T.val))
    ELSE RSum([k \in 1..Len(T.val[n]) |->
                  RMul(T.val[n][k], V.val[n][k])], 1..Len(T.val[n]))

\* R = reconstruction ** (2 / p) (lines 1109-1113) for the domain p: 1 or 2
source_power(c, r) == RPow(r, 2 \div c.domain)

\* |y_n|^2 / R_n at the representative bin and frame, computed as
\* (|y_n|^p / reconstruction) ** (2 / p)
signal_to_model(c, Y, Z, T, V, n) ==
    source_power(c, RDiv(DomainPower(c, Y.val[n]),
                         nmf_reconstruction(c, Z, T, V, n)))

\* SpecPower: valid configurations normalized by power on one call of
\* MaxIter iterations, in both modes and domains, with factors and psi away
\* from one
PowerInputs ==
    [args |-> Args(Variants, {<<100, 1>>}, {Half}, {"IP1", "ISS1"}, {TRUE, FALSE},
                   {"True", "power"}, {"False"}, {NoRef}, {1, 2},
                   {"max_flooring"}, {FALSE}),
     calls |-> 1,
     mixtures |-> {Mixture},
     n_iters |-> {MaxIter},
     overrides |-> [p \in BOOLEAN |-> {NoOverride}],
     draws |-> {<<Half>>, <<Half, ROne>>},
     factors |-> {<<ROne>>, <<Half, Two>>},
     psis |-> {<<Two, ROne>>, <<Half, Two>>},
     filters |-> {Filter},
     separated |-> {<<Two, Half>>}]

SpecPower == Init /\ [][Next(PowerInputs)]_vars

\* the separated spectrogram of the state after a step
CurrentY_after(c) ==
    IF c.spatial_algorithm \in IPFamily THEN separate(input', demix_filter') ELSE output'

\* C26: power normalization leaves the ratio of the separated power to the
\* reconstructed source power unchanged for every source, in the
\* partitioning mode (Z and T rescaled) and in the other (T divided by
\* psi ** p).
C26_PowerNormalizationKeepsRatio ==
    [][(Constructed /\ pc = "normalize" /\ pc' = "callback"
        /\ NormalizeRule(cfg) = "power") =>
          \A n \in 1..Len(CurrentY(cfg).val) :
              signal_to_model(cfg, CurrentY_after(cfg), latent', basis',
                              activation', n)
                  = signal_to_model(cfg, CurrentY(cfg), latent, basis,
                                    activation, n)]_vars

\* a power normalization of a partitioning IP separator has changed the
\* filter and the basis
C26_Witness ==
    /\ Constructed /\ cfg.partitioning /\ cfg.spatial_algorithm \in IPFamily
    /\ cfg.domain = 2 /\ pc = "callback" /\ Last(trace) = "normalize"
    /\ NormalizeRule(cfg) = "power"
    /\ demix_filter.val # Filter
    /\ signal_to_model(cfg, CurrentY(cfg), latent, basis, activation, 1) # RZero

\* posterior.sum(axis=0) = 1 in every frame of the representative bin
PosteriorSumsToOne ==
    \A j \in 1..Len(cacgmm.posterior.val[1]) :
        RSum([n \in 1..Len(cacgmm.posterior.val) |-> cacgmm.posterior.val[n][j]],
             1..Len(cacgmm.posterior.val)) = ROne

\* C27: in CACGMM a posterior that is not None sums to one over the
\* sources in every frame, after every E step and after the permutation
\* alignment, and a call that returned has left a posterior, also with
\* n_iter = 0.
C27_PosteriorNormalized ==
    cacgmm.pc # "start" =>
        /\ IsArray(cacgmm.posterior) =>
              /\ Len(cacgmm.posterior.val) = cacgmm.n_sources
              /\ PosteriorSumsToOne
        /\ (cacgmm.pc = "idle" /\ cacgmm.ret # Unset) => IsArray(cacgmm.posterior)

\* a call with n_iter = 0 on three sources returned a posterior that is
\* not uniform, its sources put in another order by the alignment
C27_Witness ==
    /\ cacgmm.pc = "idle" /\ cacgmm.ret # Unset /\ cacgmm.n_iter = 0
    /\ cacgmm.n_sources = 3 /\ cacgmm.solve_permutation
    /\ IsArray(cacgmm.posterior)
    /\ RLt(cacgmm.posterior.val[3][1], cacgmm.posterior.val[1][1])

\* C28: after a completed call of an ISS-family separator, another call on
\* the same object without a demix_filter keyword argument fails in _reset
\* with the TypeError of separate applied to None, before any update_once,
\* callback or loss computation; with a demix_filter keyword argument of
\* the expected shape the reset does not fail.
C28_SecondISSCallFailsInReset ==
    (Constructed /\ cfg.spatial_algorithm \notin IPFamily /\ calls >= 2) =>
        IF "demix_filter" \in DOMAIN kwargs
        THEN pc # "raised" /\ err = NoError
        ELSE /\ pc = "raised"
             /\ err = Error("TypeError", "_reset")
             /\ trace = <<"_reset">>
             /\ iter = 0
             /\ demix_filter = NoneVal

\* the second call of an ISS separator, given no filter, has raised
C28_Witness ==
    /\ Constructed /\ cfg.spatial_algorithm = "ISS1" /\ calls = 2
    /\ "demix_filter" \notin DOMAIN kwargs
    /\ pc = "raised" /\ err = Error("TypeError", "_reset")
    /\ IsArray(ret)

\* how many rows of the bin are the row r
RowCount(bin, r) == Cardinality({n \in 1..Len(bin) : bin[n] = r})

\* the rows of the two bins are the same, each as many times
SameRows(a, b) ==
    /\ Len(a) = Len(b)
    /\ \A n \in 1..Len(a) : RowCount(a, a[n]) = RowCount(b, a[n])

\* C29: in every bin the rows of the filter the solver works on, and of
\* the filter it returns, are the rows given for that bin, none twice and
\* none missing; the rows of the reference bin (the least-correlated one)
\* are in the order given.
C29_RowsPermutedPerBin ==
    solver.pc # "start" =>
        /\ \A b \in 1..solver.n_bins :
               SameRows(solver.heap[solver.W][b], solver.before[demix_filter_ref][b])
        /\ solver.heap[solver.W][LeastCorrelatedBin]
               = solver.before[demix_filter_ref][LeastCorrelatedBin]
        /\ solver.pc = "returned" => Returned = solver.heap[solver.W]

\* a call on three sources returned the caller's array with the rows of
\* one bin in a cyclic order
C29_Witness ==
    /\ solver.pc = "returned" /\ solver.n_sources = 3 /\ solver.overwrite
    /\ \E b \in 1..solver.n_bins :
           /\ b # LeastCorrelatedBin
           /\ Returned[b] = Permute(solver.before[demix_filter_ref][b], <<3, 1, 2>>)

\* the attributes a call iterates on: <Variant>ILRMA.update_once
Iterated(c) ==
    {"demix_filter", "basis", "activation"}
    \cup (IF c.partitioning THEN {"latent"} ELSE {})

\* C30: the arrays a call received as keyword overrides (demix_filter,
\* basis, activation, latent) hold after every step of the call what the
\* caller passed, and no attribute the call iterates on is bound to one of
\* the caller's arrays: the separator iterates on copies.
C30_OverridesNeverModified ==
    (Constructed /\ calls >= 1) =>
        /\ caller_kwargs.arrays = kwargs
        /\ pc # "raised" => caller_kwargs.shared \cap Iterated(cfg) = {}

\* a call given a filter has completed MaxIter iterations, the object's
\* filter has moved away from the given one and the caller's has not
C30_Witness ==
    /\ pc = "idle" /\ ret # Unset /\ n_iter = MaxIter /\ iter = MaxIter
    /\ cfg.spatial_algorithm \in IPFamily
    /\ "demix_filter" \in DOMAIN kwargs
    /\ demix_filter # kwargs.demix_filter
    /\ caller_kwargs.arrays.demix_filter = kwargs.demix_filter

=============================================================================
